---------------------------- MODULE Spec2Model ----------------------------
(***************************************************************************)
(* A model of the document-analysis and CSV-upload service:                *)
(*   app/services/document_analysis.py  text extraction, classification,   *)
(*                                      invoice parsing, orchestration     *)
(*   app/services/storage.py            S3StorageService                   *)
(*   app/services/validation.py         ValidationService, parse_csv       *)
(*   app/api/routes/documents.py        analyze_document                   *)
(*   app/api/routes/files.py            upload_file                        *)
(*                                                                         *)
(* Text is a sequence of one-character strings.  An optional value is a    *)
(* sequence of length 0 (None) or 1.                                       *)
(***************************************************************************)
EXTENDS Integers, Sequences, FiniteSets, TLC

VARIABLES
    \* ---- text sanitizer, run twice on one input (SpecSanitize)
    sPc, sText, sOnce, sTwice,
    \* ---- the lru_cache'd pipeline factories, called from several threads (SpecCache)
    cache,      \* per factory: the cache's only entry, <<>> or <<[key, value]>>
    built,      \* per factory: how many pipelines its body has constructed
    tPc, tFn, tRes, \* per thread: position, factory being called, value returned
    \* ---- parse_csv followed by ValidationService.run_all (SpecValidate)
    vPc, vCsv, vRows, vResult,
    vMissing,       \* what check_missing(vRows) returned
    vDuplicates,    \* check_duplicates on vRows and on a reordering of vRows
    \* ---- one call of a pure function of document_analysis.py (SpecParse)
    pPc,            \* "input" before the call, "done" after it
    pFn,            \* the function called
    pIn,            \* its argument
    pOut,           \* what it returned
    \* ---- one request: analyze_document, upload_file, or a direct call of
    \* ---- DocumentAnalyzerService(...).analyze (Spec)
    entry,          \* which of the three
    contentType,    \* file.content_type
    filename,       \* file.filename
    content,        \* the bytes received
    wiring,         \* the collaborators the service is built with
    pc,             \* position in the handler
    calls,          \* the collaborator calls made so far, in order
    pipeCalls,      \* the pipeline calls made so far: [pipe, arg, raised, returned]
    ocr,            \* how the Textract call ended: "none", "ok", "ClientError"
    text_content,   \* text_content
    docType,        \* document_type
    payload,        \* info: <<>> or <<DocumentAnalysisResult>>
    summary,        \* summary, as handed to save_analysis
    sentiment,      \* sentiment, as handed to save_analysis
    uploadResult,   \* how the upload call ended: "none", "ok", "RuntimeError", "TypeError"
    s3key,          \* s3_key: <<>> or <<key>>
    objects,        \* the keys written to object storage
    saved,          \* the arguments of each save_analysis call
    db,             \* what the request committed to the database
    result,         \* what analyze returned: <<>> or <<AnalyzerResult>>
    response,       \* what upload_file answered: <<>> or <<FileUploadResponse>>
    error,          \* the exception that ended the request, "" for none
    status          \* the HTTP status of the response, 0 for none

sanVars == <<sPc, sText, sOnce, sTwice>>

cacheVars == <<cache, built, tPc, tFn, tRes>>

valVars == <<vPc, vCsv, vRows, vResult, vMissing, vDuplicates>>

parseVars == <<pPc, pFn, pIn, pOut>>

reqVars == <<entry, contentType, filename, content, wiring>>

runVars == <<pc, calls, pipeCalls, ocr, text_content, docType, payload, summary, sentiment,
             uploadResult, s3key, objects, saved, db, result, response, error, status>>

mainVars == <<reqVars, runVars>>

vars == <<sPc, sText, sOnce, sTwice, cache, built, tPc, tFn, tRes,
          vPc, vCsv, vRows, vResult, vMissing, vDuplicates, pPc, pFn, pIn, pOut, reqVars, runVars>>

\* Each specification runs one part of the program; the variables of the
\* other parts stay at rest.
SanIdle == sPc = "off" /\ sText = <<>> /\ sOnce = <<>> /\ sTwice = <<>>

CacheIdle == cache = <<>> /\ built = <<>> /\ tPc = <<>> /\ tFn = <<>> /\ tRes = <<>>

ValIdle ==
    /\ vPc = "off" /\ vCsv = <<>> /\ vRows = <<>> /\ vResult = <<>>
    /\ vMissing = <<>> /\ vDuplicates = <<>>

ParseIdle == pPc = "off" /\ pFn = "" /\ pIn = <<>> /\ pOut = <<>>

MainIdle ==
    /\ entry = "off" /\ contentType = "" /\ filename = "" /\ content = <<>> /\ wiring = <<>>
    /\ pc = "off" /\ calls = <<>> /\ pipeCalls = <<>> /\ ocr = "none" /\ text_content = <<>>
    /\ docType = "" /\ payload = <<>> /\ summary = <<>> /\ sentiment = <<>>
    /\ uploadResult = "none" /\ s3key = <<>> /\ objects = <<>> /\ saved = <<>>
    /\ db = <<>> /\ result = <<>> /\ response = <<>> /\ error = "" /\ status = 0

-----------------------------------------------------------------------------
(* Characters *)

NUL == "NUL"

\* the characters re's \s and str.strip() treat as whitespace
Whitespace == {" ", "\n", "\t"}

IsSpace(c) == c \in Whitespace

\* text[:n]
Take(text, n) == SubSeq(text, 1, IF Len(text) < n THEN Len(text) ELSE n)

\* text[n:]
Drop(text, n) == SubSeq(text, n + 1, Len(text))

-----------------------------------------------------------------------------
(* DocumentTextExtractor._sanitize *)

\* clean[:10000]
MaxTextLen == 10000

\* text.replace("\x00", " ")
ReplaceNul(text) == [i \in 1..Len(text) |-> IF text[i] = NUL THEN " " ELSE text[i]]

RECURSIVE LStrip(_)
LStrip(text) ==
    IF text # <<>> /\ IsSpace(Head(text)) THEN LStrip(Tail(text)) ELSE text

RECURSIVE RStrip(_)
RStrip(text) ==
    IF text # <<>> /\ IsSpace(text[Len(text)])
    THEN RStrip(SubSeq(text, 1, Len(text) - 1))
    ELSE text

\* str.strip()
Strip(text) == RStrip(LStrip(text))

\* re.sub(r"\s+", " ", text): every maximal run of whitespace becomes one space
RECURSIVE CollapseSpaces(_)
CollapseSpaces(text) ==
    IF text = <<>> THEN <<>>
    ELSE IF IsSpace(Head(text))
         THEN <<" ">> \o CollapseSpaces(LStrip(text))
         ELSE <<Head(text)>> \o CollapseSpaces(Tail(text))

\* the body of _sanitize, with the length of the final slice as a parameter
SanitizeTo(text, limit) == Take(Strip(CollapseSpaces(ReplaceNul(text))), limit)

Sanitize(text) == SanitizeTo(text, MaxTextLen)

-----------------------------------------------------------------------------
(* Matching helpers for the regular expressions of document_analysis.py    *)

Digits == {"0", "1", "2", "3", "4", "5", "6", "7", "8", "9"}

DigitValue(c) ==
    CASE c = "0" -> 0 [] c = "1" -> 1 [] c = "2" -> 2 [] c = "3" -> 3 [] c = "4" -> 4
      [] c = "5" -> 5 [] c = "6" -> 6 [] c = "7" -> 7 [] c = "8" -> 8 [] c = "9" -> 9

UpperLetters == <<"A", "B", "C", "D", "E", "F", "G", "H", "I", "J", "K", "L", "M", "N", "O", "P", "Q", "R", "S", "T", "U", "V", "W", "X", "Y", "Z">>

LowerLetters == <<"a", "b", "c", "d", "e", "f", "g", "h", "i", "j", "k", "l", "m", "n", "o", "p", "q", "r", "s", "t", "u", "v", "w", "x", "y", "z">>

LowerOf == [c \in {UpperLetters[i] : i \in 1..Len(UpperLetters)} |->
               LowerLetters[CHOOSE i \in 1..Len(UpperLetters) : UpperLetters[i] = c]]

\* str.lower() of one character
LowerChar(c) == IF c \in DOMAIN LowerOf THEN LowerOf[c] ELSE c

Lower(text) == [i \in 1..Len(text) |-> LowerChar(text[i])]

\* word occurs in text at index i
OccursAt(text, i, word) ==
    /\ i >= 1
    /\ i + Len(word) - 1 <= Len(text)
    /\ SubSeq(text, i, i + Len(word) - 1) = word

\* word in text
Contains(text, word) == \E i \in 1..(Len(text) + 1) : OccursAt(text, i, word)

\* the end of the longest run of characters of class S that starts at i
\* (i - 1 when the character at i is not in S)
RECURSIVE RunEnd(_, _, _)
RunEnd(text, i, S) ==
    IF i <= Len(text) /\ text[i] \in S THEN RunEnd(text, i + 1, S) ELSE i - 1

-----------------------------------------------------------------------------
(* DocumentClassifier *)

KEYWORDS ==
    << <<"f", "a", "c", "t", "u", "r", "a">>,
       <<"i", "n", "v", "o", "i", "c", "e">>,
       <<"s", "u", "b", "t", "o", "t", "a", "l">>,
       <<"i", "v", "a">>,
       <<"t", "o", "t", "a", "l">> >>

\* the score that makes a document an invoice
InvoiceScore == 2

\* sum(1 for word in self.KEYWORDS if word in text.lower())
KeywordScore(text) ==
    Cardinality({k \in 1..Len(KEYWORDS) : Contains(Lower(text), KEYWORDS[k])})

Classify(text) == IF KeywordScore(text) >= InvoiceScore THEN "FACTURA" ELSE "INFORMACION"

-----------------------------------------------------------------------------
(* InvoiceParser._normalize_amount.  A float is <<m, e>>, the number       *)
(* m / 10^e with no trailing zero in the fraction.                         *)

Without(text, c) == SelectSeq(text, LAMBDA x : x # c)

Replace(text, c, d) == [i \in 1..Len(text) |-> IF text[i] = c THEN d ELSE text[i]]

Has(text, c) == \E i \in 1..Len(text) : text[i] = c

RECURSIVE DigitsValue(_)
DigitsValue(ds) ==
    IF ds = <<>> THEN 0 ELSE 10 * DigitsValue(SubSeq(ds, 1, Len(ds) - 1)) + DigitValue(ds[Len(ds)])

RECURSIVE Reduced(_, _)
Reduced(m, e) == IF e > 0 /\ m % 10 = 0 THEN Reduced(m \div 10, e - 1) ELSE <<m, e>>

\* float(s) for s made of digits and points: <<value>>, or <<>> for ValueError
Float(s) ==
    LET points == {i \in 1..Len(s) : s[i] = "."}
        digits == Without(s, ".")
    IN  IF Cardinality(points) > 1 \/ digits = <<>> \/ \E i \in 1..Len(s) : s[i] \notin Digits \cup {"."}
        THEN <<>>
        ELSE IF points = {}
             THEN <<Reduced(DigitsValue(digits), 0)>>
             ELSE LET at == CHOOSE i \in points : TRUE
                  IN  <<Reduced(DigitsValue(digits), Len(s) - at)>>

\* _normalize_amount with the two attempts in the other order: the parse
\* with every '.' stripped first, the direct parse when it fails
NormalizeAmountFallbackFirst(value) ==
    IF value = <<>> \/ value[1] = <<>> THEN <<>>
    ELSE LET stripped == Without(Without(value[1], "$"), " ")
             cleaned == IF Has(stripped, ",") /\ Has(stripped, ".") THEN Without(stripped, ",")
                        ELSE IF Has(stripped, ",") THEN Replace(stripped, ",", ".")
                        ELSE stripped
             fallback == Float(Replace(Without(cleaned, "."), ",", "."))
         IN  IF fallback # <<>> THEN fallback ELSE Float(cleaned)

\* value: <<>> (None) or <<string>>; the result: <<>> (None) or <<float>>
NormalizeAmount(value) ==
    IF value = <<>> \/ value[1] = <<>> THEN <<>>
    ELSE LET stripped == Without(Without(value[1], "$"), " ")
             cleaned == IF Has(stripped, ",") /\ Has(stripped, ".") THEN Without(stripped, ",")
                        ELSE IF Has(stripped, ",") THEN Replace(stripped, ",", ".")
                        ELSE stripped
         IN  IF Float(cleaned) # <<>> THEN Float(cleaned)
             ELSE Float(Replace(Without(cleaned, "."), ",", "."))

-----------------------------------------------------------------------------
(* InvoiceParser._extract_amount with the total pattern of parse:          *)
(* (?:total\s+de\s+la\s+factura|importe\s+total|total)\s*[:\-\s]+\$?([\d.,]+) *)

\* the label alternatives, each the words that \s+ separates
TotalLabels ==
    << << <<"t", "o", "t", "a", "l">>, <<"d", "e">>, <<"l", "a">>,
          <<"f", "a", "c", "t", "u", "r", "a">> >>,
       << <<"i", "m", "p", "o", "r", "t", "e">>, <<"t", "o", "t", "a", "l">> >>,
       << <<"t", "o", "t", "a", "l">> >> >>

\* the index after words matched from i with \s+ between them, 0 for no match
RECURSIVE WordsEnd(_, _, _)
WordsEnd(text, i, words) ==
    IF ~OccursAt(text, i, Head(words)) THEN 0
    ELSE LET after == i + Len(Head(words))
         IN  IF Len(words) = 1 THEN after
             ELSE LET ws == RunEnd(text, after, Whitespace)
                  IN  IF ws < after THEN 0 ELSE WordsEnd(text, ws + 1, Tail(words))

AmountChars == Digits \cup {".", ","}

\* the rest of the pattern from index i: [first, last] of the captured
\* group, <<>> for no match
AmountAfter(text, i) ==
    LET sep == RunEnd(text, i, Whitespace \cup {":", "-"})
        at == IF sep + 1 <= Len(text) /\ text[sep + 1] = "$" THEN sep + 2 ELSE sep + 1
        last == RunEnd(text, at, AmountChars)
    IN  IF sep < i \/ last < at THEN <<>> ELSE <<at, last>>

\* the match of the pattern that starts at index i of low, the lowered
\* text (re.IGNORECASE): the first alternative that leads to a match
TotalMatchAt(low, i) ==
    LET group == [k \in 1..Len(TotalLabels) |->
                    LET after == WordsEnd(low, i, TotalLabels[k])
                    IN  IF after = 0 THEN <<>> ELSE AmountAfter(low, after)]
        ok == {k \in 1..Len(TotalLabels) : group[k] # <<>>}
    IN  IF ok = {} THEN <<>> ELSE group[CHOOSE x \in ok : \A y \in ok : x <= y]

\* the groups of the non-overlapping matches from index from on, left to right
RECURSIVE TotalGroups(_, _)
TotalGroups(low, from) ==
    IF from > Len(low) THEN <<>>
    ELSE LET m == TotalMatchAt(low, from)
         IN  IF m = <<>> THEN TotalGroups(low, from + 1)
             ELSE <<m>> \o TotalGroups(low, m[2] + 1)

\* re.findall: the captured groups of the non-overlapping matches, left to right
TotalMatches(text, from) ==
    LET groups == TotalGroups(Lower(text), from)
    IN  [k \in 1..Len(groups) |-> SubSeq(text, groups[k][1], groups[k][2])]

\* the first match picked instead: matches[0]
PickFirstMatch(matches) == matches[1]

\* the amount picked among the matches: matches[-1]
PickMatch(matches) == matches[Len(matches)]

ExtractAmount(text) ==
    LET matches == TotalMatches(text, 1)
    IN  IF matches = <<>> THEN <<>> ELSE NormalizeAmount(<<PickMatch(matches)>>)

\* InvoiceParser.parse: the FacturaData fields the orchestrator reads
Parse(text) == [total |-> ExtractAmount(text)]

-----------------------------------------------------------------------------
(* InvoiceParser._extract_party_block *)

\* the keywords of the lookahead that ends the captured block, each the
\* words that \s+ separates
PartyBoundaries ==
    <<<<<<"c", "l", "i", "e", "n", "t", "e">>>>,
      <<<<"p", "r", "o", "v", "e", "e", "d", "o", "r">>>>,
      <<<<"n", "ú", "m", "e", "r", "o">>, <<"d", "e">>, <<"f", "a", "c", "t", "u", "r", "a">>>>,
      <<<<"n", "u", "m", "e", "r", "o">>, <<"d", "e">>, <<"f", "a", "c", "t", "u", "r", "a">>>>,
      <<<<"n", "ú", "m", "e", "r", "o">>>>,
      <<<<"n", "u", "m", "e", "r", "o">>>>,
      <<<<"i", "n", "v", "o", "i", "c", "e">>, <<"n", "u", "m", "b", "e", "r">>>>,
      <<<<"f", "e", "c", "h", "a">>>>,
      <<<<"c", "a", "n", "t", "i", "d", "a", "d">>>>,
      <<<<"t", "o", "t", "a", "l">>>>,
      <<<<"d", "e", "s", "c", "r", "i", "p", "c", "i", "ó", "n">>>>,
      <<<<"d", "e", "s", "c", "r", "i", "p", "c", "i", "o", "n">>>>>>

\* (?=(?:cliente|proveedor|...|$)) at index j
BoundaryAt(low, j) ==
    \/ j = Len(low) + 1
    \/ \E k \in 1..Len(PartyBoundaries) : WordsEnd(low, j, PartyBoundaries[k]) # 0

\* the first index from j on where the lookahead holds
RECURSIVE NextBoundary(_, _)
NextBoundary(low, j) == IF BoundaryAt(low, j) THEN j ELSE NextBoundary(low, j + 1)

\* label\s*:\s*(.+?)(?=...) matched from index p: [first, last] of the
\* captured group, <<>> for no match.  \s* gives one character back when it
\* has taken everything up to the end of the text.
PartyMatchAt(low, p, label) ==
    IF ~OccursAt(low, p, label) THEN <<>>
    ELSE LET colon == RunEnd(low, p + Len(label), Whitespace) + 1
             first == RunEnd(low, colon + 1, Whitespace) + 1
             from == IF first <= Len(low) THEN first ELSE Len(low)
         IN  IF colon > Len(low) \/ low[colon] # ":" \/ from <= colon THEN <<>>
             ELSE <<from, NextBoundary(low, from + 1) - 1>>

\* pattern.search(text): match.group(1) of the leftmost match, <<>> for None
RECURSIVE PartySearch(_, _, _)
PartySearch(low, p, label) ==
    IF p > Len(low) THEN <<>>
    ELSE LET m == PartyMatchAt(low, p, label)
         IN  IF m # <<>> THEN m ELSE PartySearch(low, p + 1, label)

PartyCapture(text, label) ==
    LET m == PartySearch(Lower(text), 1, label)
    IN  IF m = <<>> THEN <<>> ELSE <<SubSeq(text, m[1], m[2])>>

RECURSIVE LStripChars(_, _)
LStripChars(text, S) ==
    IF text # <<>> /\ Head(text) \in S THEN LStripChars(Tail(text), S) ELSE text

RECURSIVE RStripChars(_, _)
RStripChars(text, S) ==
    IF text # <<>> /\ text[Len(text)] \in S
    THEN RStripChars(SubSeq(text, 1, Len(text) - 1), S)
    ELSE text

\* text.strip(chars)
StripChars(text, S) == RStripChars(LStripChars(text, S), S)

\* re.sub(r"\s+", " ", match.group(1)).strip(" ,:")
PartyBlock(captured) == StripChars(CollapseSpaces(captured), {" ", ",", ":"})

\* the characters re's \w matches
WordChars ==
    {UpperLetters[i] : i \in 1..Len(UpperLetters)} \cup {LowerLetters[i] : i \in 1..Len(LowerLetters)}
    \cup Digits \cup {"_", "ñ", "ó", "ú"}

\* cut_keywords without its last entry: \bAv\.?\b, \bAvenida\b, \bCalle\b,
\* \bCarrera\b, \bCl\.?\b, \bRuta\b, \bBoulevard\b.  The optional point
\* does not move the start of a match: a point after the word is itself a
\* word boundary.
CutWords == <<<<"a", "v">>, <<"a", "v", "e", "n", "i", "d", "a">>, <<"c", "a", "l", "l", "e">>, <<"c", "a", "r", "r", "e", "r", "a">>, <<"c", "l">>, <<"r", "u", "t", "a">>, <<"b", "o", "u", "l", "e", "v", "a", "r", "d">>>>

\* the number of entries of cut_keywords; the last is \d+\w*
CutCount == Len(CutWords) + 1

\* the k-th entry of cut_keywords matches at index i of block, which is
\* lowered (re.IGNORECASE)
CutMatchAt(block, i, k) ==
    IF k <= Len(CutWords)
    THEN /\ OccursAt(block, i, CutWords[k])
         /\ i = 1 \/ block[i - 1] \notin WordChars
         /\ i + Len(CutWords[k]) > Len(block) \/ block[i + Len(CutWords[k])] \notin WordChars
    ELSE block[i] \in Digits

\* re.search(kw, block).start() as an index from 1, 0 for no match
CutSearch(block, k) ==
    LET low == Lower(block)
        at == {i \in 1..Len(block) : CutMatchAt(low, i, k)}
    IN  IF at = {} THEN 0 ELSE CHOOSE i \in at : \A j \in at : i <= j

\* the leftmost match of any entry instead of the first entry that matches
LeftmostCut(block, k) ==
    LET at == {CutSearch(block, x) : x \in k..CutCount} \ {0}
    IN  IF at = {} THEN 0 ELSE CHOOSE i \in at : \A j \in at : i <= j

\* for kw in cut_keywords: ... break: the start of the match of the first
\* entry, from the k-th on, that matches; 0 when none does
RECURSIVE FirstCut(_, _)
FirstCut(block, k) ==
    IF k > CutCount THEN 0
    ELSE LET start == CutSearch(block, k)
         IN  IF start # 0 THEN start ELSE FirstCut(block, k + 1)

\* split_index as an index from 1, 0 for None
SplitIndex(block) ==
    LET cut == FirstCut(block, 1)
    IN  IF cut # 0 THEN cut
    ELSE IF Has(block, ",") THEN CHOOSE i \in 1..Len(block) : block[i] = "," /\ \A j \in 1..(i - 1) : block[j] # ","
    ELSE 0

\* x or None
OrNone(x) == IF x = <<>> THEN <<>> ELSE <<x>>

\* the result: <<>> (None) or <<[nombre, direccion]>>, each <<>> (None) or <<text>>
ExtractPartyBlock(text, label) ==
    LET captured == PartyCapture(text, label)
    IN  IF captured = <<>> THEN <<>>
    ELSE LET block == PartyBlock(captured[1])
             split == SplitIndex(block)
         IN  IF split # 0
             THEN <<[nombre |-> OrNone(StripChars(Take(block, split - 1), {" ", ","})),
                     direccion |-> OrNone(StripChars(Drop(block, split - 1), {" ", ","}))]>>
             ELSE <<[nombre |-> OrNone(block), direccion |-> <<>>]>>

-----------------------------------------------------------------------------
(* InvoiceParser._extract_products.  The line pattern is                    *)
(* (\d+)\s+([A-Za-z0-9ÁÉÍÓÚÜÑáéíóúüñ\-\.\s]+)\s+\$?([\d.,]+)\s+\$?([\d.,]+) *)

\* the header words of the table pattern, Cantidad\s+Producto
TableHeader == <<<<"c", "a", "n", "t", "i", "d", "a", "d">>, <<"p", "r", "o", "d", "u", "c", "t", "o">>>>

\* the end marker of the table pattern, Total\s+de\s+la\s+factura
TableEnd == TotalLabels[1]

\* the first index from i on where word occurs in low, 0 when it does not
RECURSIVE NextOccurrence(_, _, _)
NextOccurrence(low, i, word) ==
    IF i > Len(low) THEN 0
    ELSE IF OccursAt(low, i, word) THEN i
    ELSE NextOccurrence(low, i + 1, word)

\* the first index from i on where the end marker matches, Len(low) + 1
\* when there is none ($)
RECURSIVE TableEndFrom(_, _)
TableEndFrom(low, i) ==
    IF i > Len(low) THEN Len(low) + 1
    ELSE IF WordsEnd(low, i, TableEnd) # 0 THEN i
    ELSE TableEndFrom(low, i + 1)

\* the first index from i on where the header words match, 0 for none
RECURSIVE TableHeaderFrom(_, _)
TableHeaderFrom(low, i) ==
    IF i > Len(low) THEN 0
    ELSE IF WordsEnd(low, i, TableHeader) # 0 THEN i
    ELSE TableHeaderFrom(low, i + 1)

\* table_match.group(1) if table_match else text, for the search of
\* Cantidad\s+Producto.*?Total(.*?)(?:Total\s+de\s+la\s+factura|$)
TableBody(text) ==
    LET low == Lower(text)
        head == TableHeaderFrom(low, 1)
        total == IF head = 0 THEN 0
                 ELSE NextOccurrence(low, WordsEnd(low, head, TableHeader), <<"t", "o", "t", "a", "l">>)
    IN  IF total = 0 THEN text
        ELSE SubSeq(text, total + 5, TableEndFrom(low, total + 5) - 1)

\* [A-Za-z0-9ÁÉÍÓÚÜÑáéíóúüñ\-\.\s]
NameChars ==
    {UpperLetters[i] : i \in 1..Len(UpperLetters)} \cup {LowerLetters[i] : i \in 1..Len(LowerLetters)}
    \cup Digits \cup {"Á", "É", "Í", "Ó", "Ú", "Ü", "Ñ", "á", "é", "í", "ó", "ú", "ü", "ñ"}
    \cup {"-", "."} \cup Whitespace

\* \$?([\d.,]+)\s+\$?([\d.,]+) matched after index c: the [first, last] of
\* the two groups, <<>> for no match.  Each run is taken whole: a shorter
\* one is followed by a character the next part does not take.
ProductTail(text, c) ==
    LET p1 == IF c + 1 <= Len(text) /\ text[c + 1] = "$" THEN c + 2 ELSE c + 1
        pe == RunEnd(text, p1, AmountChars)
        se == RunEnd(text, pe + 1, Whitespace)
        t1 == IF se + 1 <= Len(text) /\ text[se + 1] = "$" THEN se + 2 ELSE se + 1
        te == RunEnd(text, t1, AmountChars)
    IN  IF pe < p1 \/ se < pe + 1 \/ te < t1 THEN <<>>
        ELSE <<[price |-> <<p1, pe>>, total |-> <<t1, te>>]>>

\* the match of the line pattern that starts at index i: the [first, last] of
\* its four groups, <<>> for no match.  The quantity is the whole run of
\* digits; \s+ ends at a and the name at b, and the regex engine tries the
\* longest \s+ first and for each the longest name first.
ProductMatchAt(text, i) ==
    LET qe == RunEnd(text, i, Digits)
        w1 == RunEnd(text, qe + 1, Whitespace)
        ne == RunEnd(text, qe + 1, NameChars)
        tail(b) == ProductTail(text, RunEnd(text, b + 1, Whitespace))
        ends(a) == {b \in (a + 1)..(ne - 1) : text[b + 1] \in Whitespace /\ tail(b) # <<>>}
        starts == {a \in (qe + 1)..w1 : ends(a) # {}}
    IN  IF qe < i \/ starts = {} THEN <<>>
        ELSE LET a == CHOOSE x \in starts : \A y \in starts : y <= x
                 b == CHOOSE x \in ends(a) : \A y \in ends(a) : y <= x
             IN  <<[qty |-> <<i, qe>>, name |-> <<a + 1, b>>,
                    price |-> tail(b)[1].price, total |-> tail(b)[1].total]>>

\* pattern.findall(table_body): the groups of the non-overlapping matches
\* from index from on, left to right
RECURSIVE ProductMatches(_, _)
ProductMatches(text, from) ==
    IF from > Len(text) THEN <<>>
    ELSE LET m == ProductMatchAt(text, from)
         IN  IF m = <<>> THEN ProductMatches(text, from + 1)
             ELSE m \o ProductMatches(text, m[1].total[2] + 1)

\* ProductoItem(cantidad=float(qty), nombre=name.strip(),
\* precio_unitario=_normalize_amount(price), total=_normalize_amount(total))
ProductoItem(text, m) ==
    LET group(g) == SubSeq(text, g[1], g[2])
    IN  [cantidad |-> Float(group(m.qty)),
         nombre |-> Strip(group(m.name)),
         precio_unitario |-> NormalizeAmount(<<group(m.price)>>),
         total |-> NormalizeAmount(<<group(m.total)>>)]

\* _extract_products(text): the list productos
ExtractProducts(text) ==
    LET body == TableBody(text)
        matches == ProductMatches(body, 1)
    IN  [k \in 1..Len(matches) |-> ProductoItem(body, matches[k])]

-----------------------------------------------------------------------------
(* The process-wide pipeline handles: functools.lru_cache(maxsize=1) around *)
(* get_summary_pipeline, get_sentiment_pipeline and ai._build_pipeline.     *)
(* lru_cache looks the key up, and on a miss calls the wrapped function     *)
(* with no lock held; when the call returns it stores the result unless the *)
(* key was stored meanwhile, and returns the caller's own result either     *)
(* way.  A call that raises stores nothing.                                 *)

NThreads == 2

Threads == 1..NThreads

CachedFns == {"get_summary_pipeline", "get_sentiment_pipeline", "_build_pipeline"}

\* Settings declares ai_model and no sentiment_model (extra = "ignore"):
\* settings.sentiment_model raises AttributeError
SettingsFields == {"ai_model"}

\* the settings field each factory's body reads for its model name
ModelField(f) ==
    IF f = "get_sentiment_pipeline" THEN "sentiment_model" ELSE "ai_model"

\* the cache key of a call: () for the argument-less factories, the model
\* name (always settings.ai_model) for _build_pipeline
CacheKey(f) == IF f = "_build_pipeline" THEN "ai_model" ELSE "()"

NoResult == [kind |-> "none", h |-> 0]

CacheInit ==
    /\ cache = [f \in CachedFns |-> <<>>]
    /\ built = [f \in CachedFns |-> 0]
    /\ tPc = [t \in Threads |-> "idle"]
    /\ tFn = [t \in Threads |-> "none"]
    /\ tRes = [t \in Threads |-> NoResult]
    /\ SanIdle /\ ValIdle /\ ParseIdle /\ MainIdle

\* the cache entry once the wrapped call has returned h: the key may have
\* been stored by another caller while this call ran
StoreAfterCall(slot, key, h) ==
    IF slot # <<>> /\ slot[1].key = key THEN slot ELSE <<[key |-> key, value |-> h]>>

\* the value handed to the caller once the wrapped call has returned h: its
\* own result, whatever the cache holds by then
ReturnAfterCall(slot, key, h) == h

\* the wrapper's lookup: a hit returns the cached value, a miss enters the body
CacheLookup(t, f) ==
    /\ tPc[t] = "idle"
    /\ tFn' = [tFn EXCEPT ![t] = f]
    /\ IF cache[f] # <<>> /\ cache[f][1].key = CacheKey(f)
       THEN /\ tPc' = [tPc EXCEPT ![t] = "returned"]
            /\ tRes' = [tRes EXCEPT ![t] = [kind |-> "handle", h |-> cache[f][1].value]]
       ELSE /\ tPc' = [tPc EXCEPT ![t] = "body"]
            /\ tRes' = [tRes EXCEPT ![t] = NoResult]
    /\ UNCHANGED <<cache, built, sanVars, valVars, mainVars, parseVars>>

\* the body constructs a pipeline; the wrapper stores and returns it
CacheBodyReturns(t) ==
    /\ tPc[t] = "body"
    /\ ModelField(tFn[t]) \in SettingsFields
    /\ LET f == tFn[t]
           h == built[f] + 1
       IN  /\ built' = [built EXCEPT ![f] = h]
           /\ cache' = [cache EXCEPT ![f] = StoreAfterCall(cache[f], CacheKey(f), h)]
           /\ tRes' = [tRes EXCEPT ![t] =
                         [kind |-> "handle", h |-> ReturnAfterCall(cache[f], CacheKey(f), h)]]
    /\ tPc' = [tPc EXCEPT ![t] = "returned"]
    /\ UNCHANGED <<tFn, sanVars, valVars, mainVars, parseVars>>

\* the body raises (the settings field is missing, or the model does not
\* load): nothing is stored
CacheBodyRaises(t) ==
    /\ tPc[t] = "body"
    /\ tRes' = [tRes EXCEPT ![t] = [kind |-> "error", h |-> 0]]
    /\ tPc' = [tPc EXCEPT ![t] = "returned"]
    /\ UNCHANGED <<cache, built, tFn, sanVars, valVars, mainVars, parseVars>>

\* the caller goes on; it may call a factory again
CacheCallerDone(t) ==
    /\ tPc[t] = "returned"
    /\ tPc' = [tPc EXCEPT ![t] = "idle"]
    /\ tFn' = [tFn EXCEPT ![t] = "none"]
    /\ tRes' = [tRes EXCEPT ![t] = NoResult]
    /\ UNCHANGED <<cache, built, sanVars, valVars, mainVars, parseVars>>

CacheNext ==
    \E t \in Threads :
        \/ \E f \in CachedFns : CacheLookup(t, f)
        \/ CacheBodyReturns(t)
        \/ CacheBodyRaises(t)
        \/ CacheCallerDone(t)

SpecCache == CacheInit /\ [][CacheNext]_vars

\* C5: each process-wide handle is initialized at most once under any
\* interleaving (its constructor never completes twice), and all callers of
\* one factory that hold a handle hold the same one.
C5_InitializedOnce ==
    /\ \A f \in CachedFns : built[f] <= 1
    /\ \A t1, t2 \in Threads :
          (/\ tPc[t1] = "returned" /\ tPc[t2] = "returned"
           /\ tFn[t1] = tFn[t2]
           /\ tRes[t1].kind = "handle" /\ tRes[t2].kind = "handle")
          => tRes[t1].h = tRes[t2].h

-----------------------------------------------------------------------------
(* validation.py: parse_csv and ValidationService.                         *)
(* A CSV file is its header cells and the cells of its data lines.  A row   *)
(* (a Python dict) is the sequence of its items in insertion order; a key   *)
(* is <<name>> or <<>> (None, DictReader's restkey); a value is a string,   *)
(* None (DictReader's restval) or a list of strings.                        *)

StrVal(c) == [t |-> "str", s |-> c, l |-> <<>>]

NoneVal == [t |-> "none", s |-> "", l |-> <<>>]

ListVal(cells) == [t |-> "list", s |-> "", l |-> cells]

Item(k, v) == [key |-> k, val |-> v]

\* csv.DictReader: one dict per non-blank data line
DictRow(header, line) ==
    LET lf == Len(header)
        lr == Len(line)
        zipped == [i \in 1..(IF lf < lr THEN lf ELSE lr) |->
                     Item(<<header[i]>>, StrVal(line[i]))]
    IN  IF lf < lr THEN Append(zipped, Item(<<>>, ListVal(SubSeq(line, lf + 1, lr))))
        ELSE zipped \o [i \in 1..(lf - lr) |-> Item(<<header[lr + i]>>, NoneVal)]

IsBlankLine(line) == line = <<>>

NotBlankLine(line) == ~IsBlankLine(line)

\* parse_csv: [row for row in csv.DictReader(StringIO(content))]
ParseCsv(csv) ==
    LET kept == SelectSeq(csv.lines, NotBlankLine)
    IN  [i \in 1..Len(kept) |-> DictRow(csv.header, kept[i])]

\* the test with None left out: v == ""
IsMissingEmptyOnly(v) == v.t = "str" /\ v.s = ""

\* v in ("", None)
IsMissing(v) == (v.t = "str" /\ v.s = "") \/ v.t = "none"

ItemMissing(item) == IsMissing(item.val)

\* [k for k, v in row.items() if v in ("", None)]
MissingCols(row) ==
    LET hit == SelectSeq(row, ItemMissing)
    IN  [i \in 1..Len(hit) |-> hit[i].key]

HasCols(found) == found.cols # <<>>

\* sep.join(parts): a string is the sequence of its pieces
RECURSIVE Join(_, _)
Join(parts, sep) ==
    IF parts = <<>> THEN <<>>
    ELSE IF Len(parts) = 1 THEN parts[1]
    ELSE parts[1] \o <<sep>> \o Join(Tail(parts), sep)

\* f"fila {idx}: {','.join(cols)}"; every column of cols is a header name
\* (the restkey None holds a list, which is never missing)
OffenderText(found) ==
    <<"fila ", ToString(found.row), ": ">>
    \o Join([i \in 1..Len(found.cols) |-> <<found.cols[i][1]>>], ",")

\* ValidationService.check_missing
CheckMissing(rows) ==
    LET missing_by_row == [i \in 1..Len(rows) |-> [row |-> i, cols |-> MissingCols(rows[i])]]
        offenders == SelectSeq(missing_by_row, HasCols)
    IN  IF offenders = <<>>
        THEN [name |-> "valores_vacios", status |-> "OK", details |-> <<>>]
        ELSE [name |-> "valores_vacios", status |-> "WARN",
              details |-> Join([i \in 1..Len(offenders) |-> OffenderText(offenders[i])], "; ")]

\* sorted(row.items()) compares the items' keys: None and a str do not compare
Sortable(row) == Len(row) < 2 \/ \A i \in 1..Len(row) : row[i].key # <<>>

\* Counter(serialized) hashes each tuple of items: a list does not hash
Hashable(row) == \A i \in 1..Len(row) : row[i].val.t # "list"

\* tuple(sorted(row.items())): equal for two rows iff they hold the same items
Serialized(row) == {row[i] : i \in 1..Len(row)}

\* whether check_duplicates raises TypeError
DuplicatesRaises(rows) == \E i \in 1..Len(rows) : ~Sortable(rows[i]) \/ ~Hashable(rows[i])

\* ValidationService.check_duplicates, when it returns
CheckDuplicates(rows) ==
    LET serialized == [i \in 1..Len(rows) |-> Serialized(rows[i])]
        count(r) == Cardinality({i \in 1..Len(rows) : serialized[i] = r})
        duplicates == {r \in {serialized[i] : i \in 1..Len(rows)} : count(r) > 1}
    IN  IF duplicates = {}
        THEN [name |-> "duplicados", status |-> "OK", details |-> <<>>]
        ELSE [name |-> "duplicados", status |-> "WARN",
              details |-> <<ToString(Cardinality(duplicates)), " filas repetidas">>]

\* a call of check_duplicates: its finding, or the exception that leaves it
CallCheckDuplicates(rows) ==
    IF DuplicatesRaises(rows) THEN [raised |-> "TypeError", finding |-> <<>>]
    ELSE [raised |-> "no", finding |-> <<CheckDuplicates(rows)>>]

\* ValidationService.run_all: the findings, or the exception that leaves it
RunAll(rows) ==
    IF rows = <<>>
    THEN [raised |-> "no",
          findings |-> <<[name |-> "contenido", status |-> "ERROR",
                          details |-> <<"El archivo esta vacio">>]>>]
    ELSE IF DuplicatesRaises(rows)
         THEN [raised |-> "TypeError", findings |-> <<>>]
         ELSE [raised |-> "no", findings |-> <<CheckMissing(rows), CheckDuplicates(rows)>>]

-----------------------------------------------------------------------------
(* SpecSanitize: _sanitize applied to an input, then to its own result.    *)
(* The slice length is CutLen instead of 10000 so that inputs longer than  *)
(* the slice can be enumerated.                                            *)

CutLen == 3
MaxInputLen == 5

Alphabet == {"a", " ", "\n", NUL}

RECURSIVE TextsUpTo(_)
TextsUpTo(n) ==
    IF n = 0 THEN {<<>>}
    ELSE LET shorter == TextsUpTo(n - 1)
         IN  shorter \cup {Append(t, c) : t \in {u \in shorter : Len(u) = n - 1}, c \in Alphabet}

SanInit ==
    /\ sPc = "input"
    /\ sText \in TextsUpTo(MaxInputLen)
    /\ sOnce = <<>>
    /\ sTwice = <<>>
    /\ CacheIdle /\ ValIdle /\ ParseIdle /\ MainIdle

SanitizeOnce ==
    /\ sPc = "input"
    /\ sOnce' = SanitizeTo(sText, CutLen)
    /\ sPc' = "once"
    /\ UNCHANGED <<sText, sTwice, cacheVars, valVars, mainVars, parseVars>>

SanitizeTwice ==
    /\ sPc = "once"
    /\ sTwice' = SanitizeTo(sOnce, CutLen)
    /\ sPc' = "twice"
    /\ UNCHANGED <<sText, sOnce, cacheVars, valVars, mainVars, parseVars>>

SanNext == SanitizeOnce \/ SanitizeTwice

SpecSanitize == SanInit /\ [][SanNext]_vars

\* C9: sanitize is idempotent: sanitize(sanitize(x)) = sanitize(x) for every
\* input x, also when x is longer than the slice and the cut falls after a space.
C9_SanitizeIdempotent == sPc = "twice" => sTwice = sOnce

-----------------------------------------------------------------------------
(* SpecValidate: run_all on the rows parse_csv yields for a CSV file.       *)

MaxCols == 2
MaxLines == 2

ColNames == <<"a", "b", "c", "d">>

Cells == {"", "x"}

RECURSIVE SeqsOfLen(_, _)
SeqsOfLen(S, n) ==
    IF n = 0 THEN {<<>>}
    ELSE {Append(q, x) : q \in SeqsOfLen(S, n - 1), x \in S}

\* the lines of a file under a header of n columns: blank, short, full and
\* one cell too long
LinesFor(n) == UNION {SeqsOfLen(Cells, k) : k \in 0..(n + 1)}

\* the files of k lines under a header of n columns
CsvFilesOf(n, k) ==
    LET header == SubSeq(ColNames, 1, n)
    IN  {[header |-> header, lines |-> ls] : ls \in SeqsOfLen(LinesFor(n), k)}

ValInit ==
    /\ vPc = "content"
    /\ \E n \in 1..MaxCols, k \in 0..MaxLines : vCsv \in CsvFilesOf(n, k)
    /\ vRows = <<>>
    /\ vResult = <<>>
    /\ vMissing = <<>>
    /\ vDuplicates = <<>>
    /\ SanIdle /\ CacheIdle /\ ParseIdle /\ MainIdle

ValParse ==
    /\ vPc = "content"
    /\ vRows' = ParseCsv(vCsv)
    /\ vPc' = "parsed"
    /\ UNCHANGED <<vCsv, vResult, vMissing, vDuplicates, sanVars, cacheVars, mainVars, parseVars>>

ValRunAll ==
    /\ vPc = "parsed"
    /\ vResult' = RunAll(vRows)
    /\ vPc' = "validated"
    /\ UNCHANGED <<vCsv, vRows, vMissing, vDuplicates, sanVars, cacheVars, mainVars, parseVars>>

\* ValidationService.check_missing(rows), called on its own
ValCheckMissing ==
    /\ vPc = "parsed"
    /\ vMissing' = <<CheckMissing(vRows)>>
    /\ vPc' = "missing_checked"
    /\ UNCHANGED <<vCsv, vRows, vResult, vDuplicates, sanVars, cacheVars, mainVars, parseVars>>

\* s[::-1]
Reverse(s) == [i \in 1..Len(s) |-> s[Len(s) + 1 - i]]

\* s[k:] + s[:k]
Rotate(s, k) == [i \in 1..Len(s) |-> s[((i - 1 + k) % Len(s)) + 1]]

\* the same rows in another order
RowOrders(rows) == {Rotate(rows, k) : k \in 0..(Len(rows) - 1)} \cup {Reverse(rows)}

\* the same rows, one of them with its columns in another order
ColumnOrders(rows) == {rows} \cup {[rows EXCEPT ![r] = Reverse(rows[r])] : r \in 1..Len(rows)}

Reorderings(rows) == UNION {ColumnOrders(o) : o \in RowOrders(rows)}

\* ValidationService.check_duplicates(rows), called on its own, on the rows
\* and on a reordering of them
ValCheckDuplicates ==
    /\ vPc = "parsed"
    /\ \E perm \in Reorderings(vRows) :
          vDuplicates' = <<[perm |-> perm, of |-> CallCheckDuplicates(vRows),
                            ofPerm |-> CallCheckDuplicates(perm)]>>
    /\ vPc' = "duplicates_checked"
    /\ UNCHANGED <<vCsv, vRows, vResult, vMissing, sanVars, cacheVars, mainVars, parseVars>>

ValNext == ValParse \/ ValRunAll \/ ValCheckMissing \/ ValCheckDuplicates

SpecValidate == ValInit /\ [][ValNext]_vars

\* C10: validate returns, for an empty row sequence, the single ERROR finding
\* of the content check, and for every non-empty row sequence exactly the
\* missing-values finding followed by the duplicate-rows finding, neither ERROR.
C10_ValidateShape ==
    vPc = "validated" =>
        IF vRows = <<>>
        THEN /\ vResult.raised = "no"
             /\ Len(vResult.findings) = 1
             /\ vResult.findings[1].name = "contenido"
             /\ vResult.findings[1].status = "ERROR"
        ELSE /\ vResult.raised = "no"
             /\ Len(vResult.findings) = 2
             /\ vResult.findings[1].name = "valores_vacios"
             /\ vResult.findings[2].name = "duplicados"
             /\ vResult.findings[1].status \in {"OK", "WARN"}
             /\ vResult.findings[2].status \in {"OK", "WARN"}

\* the columns of a row whose value is the empty string or absent, in column order
C11_EmptyCols(row) ==
    LET at == {j \in 1..Len(row) : row[j].val.t = "none" \/ (row[j].val.t = "str" /\ row[j].val.s = "")}
        nth(k) == CHOOSE j \in at : Cardinality({x \in at : x < j}) = k - 1
    IN  [k \in 1..Cardinality(at) |-> row[nth(k)].key[1]]

\* "fila <n>: <col>,<col>" for the offending rows from row i on, joined by "; "
RECURSIVE C11_Details(_, _)
C11_Details(rows, i) ==
    IF i > Len(rows) THEN <<>>
    ELSE LET cols == C11_EmptyCols(rows[i])
             rest == C11_Details(rows, i + 1)
             names == [k \in 1..(2 * Len(cols) - 1) |-> IF k % 2 = 1 THEN cols[(k + 1) \div 2] ELSE ","]
         IN  IF cols = <<>> THEN rest
             ELSE <<"fila ", ToString(i), ": ">> \o names
                  \o (IF rest = <<>> THEN <<>> ELSE <<"; ">> \o rest)

\* C11: the missing-values check returns WARN iff some row has a column
\* whose value is the empty string or absent, and OK otherwise; the WARN
\* details list, for each offending row in input order and for no other row,
\* the 1-based row index and that row's empty columns in column order,
\* the entries joined by "; ".
C11_MissingValues ==
    vPc = "missing_checked" =>
        LET offending == {i \in 1..Len(vRows) : C11_EmptyCols(vRows[i]) # <<>>}
        IN  /\ vMissing[1].name = "valores_vacios"
            /\ vMissing[1].status = (IF offending # {} THEN "WARN" ELSE "OK")
            /\ vMissing[1].details = C11_Details(vRows, 1)

C11_TwoOffenders ==
    /\ vPc = "missing_checked"
    /\ Len(vRows) = 2
    /\ vMissing[1].status = "WARN"
    /\ vMissing[1].details = <<"fila ", "1", ": ", "a", ",", "b", "; ", "fila ", "2", ": ", "b">>

\* C12: the duplicate-row check returns WARN iff two or more rows hold the
\* same set of (column, value) pairs and OK otherwise; reordering the
\* columns inside a row or the rows themselves changes neither the status
\* nor the count in the details.
C12_DuplicatesOrderIndependent ==
    vPc = "duplicates_checked" =>
        LET pairs(i) == {<<vRows[i][j].key, vRows[i][j].val>> : j \in 1..Len(vRows[i])}
            repeated == \E i, j \in 1..Len(vRows) : i < j /\ pairs(i) = pairs(j)
        IN  /\ vDuplicates[1].of.raised = "no"
            /\ vDuplicates[1].ofPerm.raised = "no"
            /\ vDuplicates[1].of.finding[1].status = (IF repeated THEN "WARN" ELSE "OK")
            /\ vDuplicates[1].ofPerm.finding[1] = vDuplicates[1].of.finding[1]

\* C25: run_all is total over every row sequence parse_csv can produce: for
\* ragged CSV input, a data row with fewer cells than the header (absent
\* values) or with more (an entry whose column name is absent and whose
\* value is a list), both checks still return a finding and neither raises.
C25_ValidateTotal ==
    /\ vPc = "validated" =>
          /\ vResult.raised = "no"
          /\ vResult.findings # <<>>
    /\ vPc = "missing_checked" => vMissing # <<>>
    /\ vPc = "duplicates_checked" =>
          /\ vDuplicates[1].of.raised = "no"
          /\ vDuplicates[1].of.finding # <<>>

-----------------------------------------------------------------------------
(* SpecParse: one call of a pure function of document_analysis.py on an    *)
(* input drawn from a bounded set.                                         *)

\* " ".join(words)
Spaced(words) == Join(words, " ")

\* the texts made of at most n words of W
TextsOf(W, n) == {Spaced(ws) : ws \in UNION {SeqsOfLen(W, k) : k \in 0..n}}

MaxClassifyWords == 3

ClassifyWords ==
    {<<"f", "a", "c", "t", "u", "r", "a">>, <<"I", "N", "V", "O", "I", "C", "E">>, <<"S", "u", "b", "t", "o", "t", "a", "l">>,
     <<"i", "v", "a">>, <<"T", "o", "t", "a", "l">>, <<"h", "o", "l", "a">>}

ClassifyInputs == TextsOf(ClassifyWords, MaxClassifyWords)

MaxAmountParts == 5

AmountParts == {<<"1">>, <<"2", "3", "4">>, <<"5", "6">>, <<".">>, <<",">>}

\* "".join(parts)
RECURSIVE Glued(_)
Glued(parts) == IF parts = <<>> THEN <<>> ELSE Head(parts) \o Glued(Tail(parts))

\* the digits an input may hold, so that its value is an integer TLC represents
MaxAmountDigits == MaxAmountParts + 2

\* None, or a string glued from at most MaxAmountParts parts ("" for none),
\* with or without a currency sign before it and a letter after it
AmountInputs ==
    LET glued == {Glued(ps) : ps \in UNION {SeqsOfLen(AmountParts, k) : k \in 0..MaxAmountParts}}
        sized == {x \in glued : Len(SelectSeq(x, LAMBDA c : c \in Digits)) <= MaxAmountDigits}
    IN  {<<>>} \cup {<<sign \o g \o unit>> : sign \in {<<>>, <<"$", " ">>}, g \in sized, unit \in {<<>>, <<"x">>}}

MaxSegments == 2

TotalSegments ==
    {<<"S", "u", "b", "t", "o", "t", "a", "l", ":", " ", "$", "1", "0", "0">>,
     <<"T", "o", "t", "a", "l", " ", "d", "e", " ", "l", "a", " ", "f", "a", "c", "t", "u", "r", "a", ":", " ", "$", "1", "5", "0", ".", "0", "0">>,
     <<"h", "o", "l", "a">>,
     <<"T", "O", "T", "A", "L">>,
     <<"7">>,
     <<"I", "m", "p", "o", "r", "t", "e", " ", "t", "o", "t", "a", "l", " ", "-", " ", "1", ",", "5">>}

TotalInputs == TextsOf(TotalSegments, MaxSegments)

MaxBlockWords == 3

PartyWords == {<<"A", "c", "m", "e">>, <<"A", "v", ".">>, <<"C", "a", "l", "l", "e">>, <<"1", "2">>, <<",">>}

\* the blocks of at most n words, each joined to the next by a space or by nothing
RECURSIVE BlocksOf(_)
BlocksOf(n) ==
    IF n = 0 THEN {<<>>}
    ELSE LET shorter == BlocksOf(n - 1)
         IN  shorter \cup PartyWords
             \cup {b \o sep \o w : b \in shorter \ {<<>>}, sep \in {<<>>, <<" ">>}, w \in PartyWords}

\* a text without the label, one with the label and no colon, and the texts
\* with a customer block: after the colon and a space, followed by nothing,
\* by the supplier's block or by a second customer block, and right after
\* the colon, followed by nothing
PartyInputs ==
    {<<"h", "o", "l", "a">>, <<"C", "l", "i", "e", "n", "t", "e", " ", "A", "c", "m", "e">>}
    \cup {<<"C", "l", "i", "e", "n", "t", "e", ":", " ">> \o b \o tail :
             b \in BlocksOf(MaxBlockWords),
             tail \in {<<>>, <<" ", "P", "r", "o", "v", "e", "e", "d", "o", "r", ":", " ", "Z">>,
                       <<" ", "C", "l", "i", "e", "n", "t", "e", ":", " ", "B">>}}
    \cup {<<"C", "l", "i", "e", "n", "t", "e", ":">> \o b : b \in BlocksOf(MaxBlockWords)}

MaxProductLines == 2

\* the header line and the closing line of a table block
TableTop == <<"C", "a", "n", "t", "i", "d", "a", "d", " ", "P", "r", "o", "d", "u", "c", "t", "o", " ", "P", "r", "e", "c", "i", "o", " ", "U", "n", "i", "t", "a", "r", "i", "o", " ", "T", "o", "t", "a", "l">>

TableBottom == <<"T", "o", "t", "a", "l", " ", "d", "e", " ", "l", "a", " ", "f", "a", "c", "t", "u", "r", "a", ":", " ", "1">>

\* lines of a table: each the text and, for a line of the form
\* <int> <name> $<price> $<total>, the four values it states
ProductLines ==
    {[text |-> <<"2", " ", "C", "a", "b", "l", "e", " ", "H", "D", "M", "I", " ", "$", "5", " ", "$", "1", "0">>, stated |-> <<[cantidad |-> <<<<2, 0>>>>, nombre |-> <<"C", "a", "b", "l", "e", " ", "H", "D", "M", "I">>, precio_unitario |-> <<<<5, 0>>>>, total |-> <<<<10, 0>>>>]>>],
     [text |-> <<"3", " ", "M", "o", "n", "i", "t", "o", "r", " ", "2", "4", " ", "$", "3", "0", "0", ",", "0", "0", " ", "$", "9", "0", "0", ",", "0", "0">>, stated |-> <<[cantidad |-> <<<<3, 0>>>>, nombre |-> <<"M", "o", "n", "i", "t", "o", "r", " ", "2", "4">>, precio_unitario |-> <<<<300, 0>>>>, total |-> <<<<900, 0>>>>]>>],
     [text |-> <<"2", " ", "L", "a", "p", "t", "o", "p", " ", "$", "1", ".", "2", "3", "4", ",", "5", "6", " ", "$", "2", ".", "4", "6", "9", ",", "1", "2">>, stated |-> <<[cantidad |-> <<<<2, 0>>>>, nombre |-> <<"L", "a", "p", "t", "o", "p">>, precio_unitario |-> <<<<123456, 2>>>>, total |-> <<<<246912, 2>>>>]>>],
     [text |-> <<"1", " ", " ", " ", "2", " ", "3">>, stated |-> <<>>],
     [text |-> <<"h", "o", "l", "a">>, stated |-> <<>>],
     [text |-> <<"7", " ", "8">>, stated |-> <<>>]}

\* the texts of at most MaxProductLines lines, alone or in a table block,
\* the lines ended by newlines or, as in a sanitized text, by spaces
ProductInputs ==
    LET bodies == UNION {SeqsOfLen({l.text : l \in ProductLines}, k) : k \in 0..MaxProductLines}
    IN  {Join(b, sep) : b \in bodies, sep \in {"\n", " "}}
        \cup {Join(<<TableTop>> \o b \o <<TableBottom>>, sep) : b \in bodies, sep \in {"\n", " "}}

ParseInit ==
    /\ pPc = "input"
    /\ \/ pFn = "classify" /\ pIn \in ClassifyInputs
       \/ pFn = "_normalize_amount" /\ pIn \in AmountInputs
       \/ pFn = "_extract_amount" /\ pIn \in TotalInputs
       \/ pFn = "_extract_party_block" /\ pIn \in PartyInputs
       \/ pFn = "_extract_products" /\ pIn \in ProductInputs
    /\ pOut = <<>>
    /\ SanIdle /\ CacheIdle /\ ValIdle /\ MainIdle

\* DocumentClassifier().classify(text)
ApplyClassify ==
    /\ pPc = "input"
    /\ pFn = "classify"
    /\ pOut' = <<Classify(pIn)>>
    /\ pPc' = "done"
    /\ UNCHANGED <<pFn, pIn, sanVars, cacheVars, valVars, mainVars>>

\* InvoiceParser._normalize_amount(value)
ApplyNormalizeAmount ==
    /\ pPc = "input"
    /\ pFn = "_normalize_amount"
    /\ pOut' = <<NormalizeAmount(pIn)>>
    /\ pPc' = "done"
    /\ UNCHANGED <<pFn, pIn, sanVars, cacheVars, valVars, mainVars>>

\* InvoiceParser._extract_amount(text, <the total pattern of parse>)
ApplyExtractAmount ==
    /\ pPc = "input"
    /\ pFn = "_extract_amount"
    /\ pOut' = <<ExtractAmount(pIn)>>
    /\ pPc' = "done"
    /\ UNCHANGED <<pFn, pIn, sanVars, cacheVars, valVars, mainVars>>

\* InvoiceParser._extract_party_block(text, "cliente")
ApplyExtractPartyBlock ==
    /\ pPc = "input"
    /\ pFn = "_extract_party_block"
    /\ pOut' = <<ExtractPartyBlock(pIn, <<"c", "l", "i", "e", "n", "t", "e">>)>>
    /\ pPc' = "done"
    /\ UNCHANGED <<pFn, pIn, sanVars, cacheVars, valVars, mainVars>>

\* InvoiceParser._extract_products(text)
ApplyExtractProducts ==
    /\ pPc = "input"
    /\ pFn = "_extract_products"
    /\ pOut' = <<ExtractProducts(pIn)>>
    /\ pPc' = "done"
    /\ UNCHANGED <<pFn, pIn, sanVars, cacheVars, valVars, mainVars>>

ParseNext ==
    \/ ApplyClassify
    \/ ApplyNormalizeAmount
    \/ ApplyExtractAmount
    \/ ApplyExtractPartyBlock
    \/ ApplyExtractProducts

SpecParse == ParseInit /\ [][ParseNext]_vars

\* C13: classify returns FACTURA iff at least 2 distinct keywords of
\* {factura, invoice, subtotal, iva, total} occur in the text
\* (case-insensitive) and INFORMACION otherwise; a text in which only the
\* word "total" occurs is INFORMACION, and a text that repeats one keyword,
\* however many times, scores at most 1 and is INFORMACION.
C13_DistinctKeywords ==
    (pPc = "done" /\ pFn = "classify") =>
        LET low == Lower(pIn)
            occurring == {k \in 1..Len(KEYWORDS) : Contains(low, KEYWORDS[k])}
            copies(k, n) == Spaced([i \in 1..n |-> KEYWORDS[k]])
            repeats(k) == \E n \in 1..(Len(low) + 1) : low = copies(k, n)
        IN  /\ pOut[1] = (IF Cardinality(occurring) >= 2 THEN "FACTURA" ELSE "INFORMACION")
            /\ repeats(5) => pOut[1] = "INFORMACION"
            /\ \A k \in 1..Len(KEYWORDS) : repeats(k) => pOut[1] = "INFORMACION"

\* s has the form \d{1,3}(\.\d{3})*,\d{2}
C14_European(s) ==
    LET n == Len(s)
        whole == SubSeq(s, 1, n - 3)
    IN  /\ n >= 4
        /\ s[n - 2] = "," /\ s[n - 1] \in Digits /\ s[n] \in Digits
        /\ whole[1] \in Digits
        /\ \A p \in 1..Len(whole) :
              IF (Len(whole) - p + 1) % 4 = 0 THEN whole[p] = "." ELSE whole[p] \in Digits

\* the digits of s read as a number with the last two as its decimals
C14_Value(s) == Reduced(DigitsValue(SelectSeq(s, LAMBDA c : c \in Digits)), 2)

\* C14: for every amount string in the European form (1-3 digits, groups
\* of '.' and three digits, ',' and two digits), normalize_amount returns the
\* value read with ',' as the decimal point and '.' as the thousands
\* separator: "1,56" gives 1.56 and "1.234,56" gives 1234.56.
C14_EuropeanAmount ==
    (pPc = "done" /\ pFn = "_normalize_amount" /\ pIn # <<>>) =>
        (C14_European(pIn[1]) => pOut[1] = <<C14_Value(pIn[1])>>)

\* s is digits with at most one '.', and at least one digit
C15_Decimal(s) ==
    /\ \A i \in 1..Len(s) : s[i] \in Digits \cup {"."}
    /\ Cardinality({i \in 1..Len(s) : s[i] = "."}) <= 1
    /\ \E i \in 1..Len(s) : s[i] \in Digits

C15_DecimalValue(s) ==
    LET at == {i \in 1..Len(s) : s[i] = "."}
        digits == SelectSeq(s, LAMBDA c : c \in Digits)
    IN  Reduced(DigitsValue(digits), IF at = {} THEN 0 ELSE Len(s) - (CHOOSE i \in at : TRUE))

\* C15: normalize_amount is total: absent for absent or empty input, and
\* for any other string a number or absent.  The direct parse comes first (a
\* plain decimal keeps its value, "1.234" is 1.234); the fallback that strips
\* every '.' is used when the direct parse fails ("1.234.234" is 1234234);
\* when both fail the result is absent.
C15_NormalizeTotal ==
    (pPc = "done" /\ pFn = "_normalize_amount") =>
        IF pIn = <<>> \/ pIn[1] = <<>> THEN pOut[1] = <<>>
        ELSE LET s == SelectSeq(pIn[1], LAMBDA c : c \notin {"$", " "})
                 points == Cardinality({i \in 1..Len(s) : s[i] = "."})
                 digits == SelectSeq(s, LAMBDA c : c \in Digits)
             IN  /\ pOut[1] = <<>> \/ (Len(pOut[1]) = 1 /\ pOut[1][1][1] \in Nat /\ pOut[1][1][2] \in Nat)
                 /\ C15_Decimal(s) => pOut[1] = <<C15_DecimalValue(s)>>
                 /\ (points >= 2 /\ digits # <<>> /\ \A i \in 1..Len(s) : s[i] \in Digits \cup {"."})
                       => pOut[1] = <<Reduced(DigitsValue(digits), 0)>>
                 /\ (digits = <<>> \/ \E i \in 1..Len(s) : s[i] \notin Digits \cup {".", ","})
                       => pOut[1] = <<>>

C15_FallbackUsed ==
    /\ pPc = "done" /\ pFn = "_normalize_amount"
    /\ pIn = <<<<"1", ".", "2", "3", "4", ".", "2", "3", "4">>>>
    /\ pOut = << << <<1234234, 0>> >> >>

\* C16: when the text holds several matches of the total pattern, the
\* total is the normalized amount of the last match in document order, never
\* of an earlier one; with no match the total is absent.
C16_LastMatchWins ==
    (pPc = "done" /\ pFn = "_extract_amount") =>
        LET low == Lower(pIn)
            starts == {i \in 1..Len(pIn) : TotalMatchAt(low, i) # <<>>}
        IN  IF starts = {} THEN pOut[1] = <<>>
            ELSE LET last == CHOOSE i \in starts : \A j \in starts : j <= i
                     group == TotalMatchAt(low, last)
                 IN  pOut[1] = NormalizeAmount(<<SubSeq(pIn, group[1], group[2])>>)

C16_SubtotalThenTotal ==
    /\ pPc = "done" /\ pFn = "_extract_amount"
    /\ pIn = <<"S", "u", "b", "t", "o", "t", "a", "l", ":", " ", "$", "1", "0", "0", " ", "T", "o", "t", "a", "l", " ", "d", "e", " ", "l", "a", " ", "f", "a", "c", "t", "u", "r", "a", ":", " ", "$", "1", "5", "0", ".", "0", "0">>
    /\ pOut = << << <<150, 0>> >> >>

\* C20: the name/address split point of a party block is chosen by
\* priority, not by position: it is the first match of the first pattern of
\* the ordered list that matches anywhere in the block, even when a pattern
\* further down the list matches further left; when no pattern matches it is
\* the first comma, and with neither the whole block is the name and the
\* address is absent.
C20_SplitByPriority ==
    (pPc = "done" /\ pFn = "_extract_party_block" /\ pOut[1] # <<>>) =>
        LET block == PartyBlock(PartyCapture(pIn, <<"c", "l", "i", "e", "n", "t", "e">>)[1])
            low == Lower(block)
            hits == [k \in 1..CutCount |-> {i \in 1..Len(block) : CutMatchAt(low, i, k)}]
            matching == {k \in 1..CutCount : hits[k] # {}}
            first == CHOOSE k \in matching : \A x \in matching : k <= x
            commas == {i \in 1..Len(block) : block[i] = ","}
            split == IF matching # {} THEN CHOOSE i \in hits[first] : \A j \in hits[first] : i <= j
                     ELSE IF commas # {} THEN CHOOSE i \in commas : \A j \in commas : i <= j
                     ELSE 0
            part(x) == OrNone(StripChars(x, {" ", ","}))
        IN  IF split = 0
            THEN pOut[1][1] = [nombre |-> OrNone(block), direccion |-> <<>>]
            ELSE pOut[1][1] = [nombre |-> part(SubSeq(block, 1, split - 1)),
                               direccion |-> part(SubSeq(block, split, Len(block)))]

C20_DigitsLeftOfStreet ==
    /\ pPc = "done" /\ pFn = "_extract_party_block"
    /\ pIn = <<"C", "l", "i", "e", "n", "t", "e", ":", " ", "1", "2", " ", "C", "a", "l", "l", "e">>
    /\ pOut = << <<[nombre |-> <<<<"1", "2">>>>, direccion |-> <<<<"C", "a", "l", "l", "e">>>>]>> >>

\* an optional text: absent, or not empty and with no comma or space at
\* either end
C21_Trimmed(part) ==
    \/ part = <<>>
    \/ /\ part[1] # <<>>
       /\ Head(part[1]) \notin {" ", ","}
       /\ part[1][Len(part[1])] \notin {" ", ","}

\* the indexes of text where the label followed by a colon starts
C21_Occurrences(text) ==
    LET low == Lower(text)
        label == <<"c", "l", "i", "e", "n", "t", "e">>
    IN  {i \in 1..Len(low) :
            /\ OccursAt(low, i, label)
            /\ LET colon == RunEnd(low, i + Len(label), Whitespace) + 1
               IN  colon <= Len(low) /\ low[colon] = ":"}

\* C21: _extract_party_block returns None whenever the text has no
\* occurrence of the label followed by a colon, and otherwise a block whose
\* nombre and direccion are each None or a non-empty string with no comma
\* or space at either end, never the empty string; when the label occurs
\* more than once the block is the one captured at its first occurrence.
C21_PartyBlockShape ==
    (pPc = "done" /\ pFn = "_extract_party_block") =>
        LET label == <<"c", "l", "i", "e", "n", "t", "e">>
            at == C21_Occurrences(pIn)
        IN  IF at = {} THEN pOut[1] = <<>>
            ELSE LET first == CHOOSE i \in at : \A j \in at : i <= j
                     m == PartyMatchAt(Lower(pIn), first, label)
                 IN  /\ pOut[1] # <<>>
                     /\ C21_Trimmed(pOut[1][1].nombre)
                     /\ C21_Trimmed(pOut[1][1].direccion)
                     /\ m # <<>>
                     /\ PartyCapture(pIn, label) = <<SubSeq(pIn, m[1], m[2])>>

\* the product lines are those of matches of the line pattern that do not
\* overlap, in the order of the text
C22_InDocumentOrder ==
    LET body == TableBody(pIn)
        matches == ProductMatches(body, 1)
    IN  /\ Len(pOut[1]) = Len(matches)
        /\ \A k \in 1..Len(matches) :
              /\ ProductMatchAt(body, matches[k].qty[1]) = <<matches[k]>>
              /\ pOut[1][k] = ProductoItem(body, matches[k])
              /\ k < Len(matches) => matches[k].total[2] < matches[k + 1].qty[1]

\* every product line has a quantity that is a number and not negative and
\* a name that is not empty once trimmed
C22_QuantityAndName ==
    \A k \in 1..Len(pOut[1]) :
        /\ pOut[1][k].cantidad # <<>>
        /\ pOut[1][k].cantidad[1][1] >= 0
        /\ Strip(pOut[1][k].nombre) # <<>>

\* a line <int> <name> $<price> $<total> right under the header of a table
\* block gives the four values it states as the first item
C22_FirstItem ==
    \A l \in ProductLines : \A sep \in {"\n", " "} :
        (l.stated # <<>> /\ OccursAt(pIn, 1, TableTop \o <<sep>> \o l.text \o <<sep>>)) =>
            /\ pOut[1] # <<>>
            /\ pOut[1][1] = l.stated[1]

\* C22: for every input text, sanitized or not, the product lines
\* _extract_products returns come from non-overlapping matches in
\* left-to-right order, each has a quantity that is a non-negative number
\* and a name that is non-empty after trimming, and a line of the form
\* <int> <name> $<price> $<total> inside a table block yields exactly those
\* four values as the first item.
C22_ProductLines ==
    (pPc = "done" /\ pFn = "_extract_products") =>
        /\ C22_InDocumentOrder
        /\ C22_QuantityAndName
        /\ C22_FirstItem

-----------------------------------------------------------------------------
(* Spec: one request.  The inputs.                                         *)

ContentTypes == {"application/pdf", "image/png", "image/jpeg", "text/csv"}

\* analyze_document: file.content_type not in {...} is answered 400
DocumentTypesAllowed == {"application/pdf", "image/png", "image/jpeg"}

Filenames == {"doc.PDF", "scan.png"}

\* filename.lower().endswith(".pdf")
IsPdfName(name) == name = "doc.PDF"

TxtInvoice == <<"S", "u", "b", "t", "o", "t", "a", "l", ":", " ", "5">>
TxtInvoiceZero == <<"s", "u", "b", "t", "o", "t", "a", "l", ":", "\n", "0">>
TxtInvoiceNoTotal == <<"I", "V", "A", " ", "t", "o", "t", "a", "l">>
TxtInfo == <<"h", "o", "l", "a", NUL, "t", "o", "t", "a", "l", ":", " ", "7">>
TxtBlank == <<" ", "\n">>
TxtBinary == <<"%", "P", "D", "F">>

DocTexts == {TxtInvoice, TxtInvoiceZero, TxtInvoiceNoTotal, TxtInfo, TxtBlank}

\* The bytes of a document: whether there are none, what
\* content.decode("utf-8", errors="ignore") gives, what PdfReader extracts
\* (<<>> when it cannot parse them), and the lines Textract detects when it
\* answers.
DocContents ==
    {[empty |-> TRUE, decoded |-> <<>>, pdf |-> <<>>, lines |-> <<>>]}
    \cup {[empty |-> FALSE, decoded |-> TxtBinary, pdf |-> <<t>>, lines |-> t] : t \in DocTexts}
    \cup {[empty |-> FALSE, decoded |-> TxtBinary, pdf |-> <<>>, lines |-> t] : t \in DocTexts}
    \cup {[empty |-> FALSE, decoded |-> t, pdf |-> <<>>, lines |-> t] : t \in DocTexts}

\* The bytes of an upload: whether there are none, whether they decode as
\* utf-8-sig, and the CSV they hold.
NoCsv == [header |-> <<>>, lines |-> <<>>]

\* header only; clean; an empty cell; a repeated line; a blank line and a
\* short line; a line longer than the header
CsvSamples ==
    {[header |-> <<"a", "b">>, lines |-> <<>>],
     [header |-> <<"a", "b">>, lines |-> << <<"x", "y">>, <<"y", "x">> >>],
     [header |-> <<"a", "b">>, lines |-> << <<"x", "">> >>],
     [header |-> <<"a", "b">>, lines |-> << <<"x", "y">>, <<"x", "y">> >>],
     [header |-> <<"a", "b">>, lines |-> << <<>>, <<"x">> >>],
     [header |-> <<"a">>, lines |-> << <<"x", "y">> >>]}

UploadContents ==
    {[empty |-> TRUE, utf8 |-> TRUE, csv |-> NoCsv],
     [empty |-> FALSE, utf8 |-> FALSE, csv |-> NoCsv]}
    \cup {[empty |-> FALSE, utf8 |-> TRUE, csv |-> f] : f \in CsvSamples}

\* The collaborators: S3StorageService() or an injected storage service,
\* InformationAnalyzer() or one built on injected pipelines, and as
\* repository a DocumentRepository or the bare Session analyze_document passes.
RouteWiring ==
    [storage |-> "S3StorageService", info |-> "default", repository |-> "Session"]

DirectWirings ==
    [storage : {"S3StorageService", "injected"}, info : {"default", "injected"},
     repository : {"DocumentRepository"}]

RunInit ==
    /\ calls = <<>> /\ pipeCalls = <<>> /\ ocr = "none" /\ text_content = <<>>
    /\ docType = "" /\ payload = <<>> /\ summary = <<>> /\ sentiment = <<>>
    /\ uploadResult = "none" /\ s3key = <<>> /\ objects = <<>> /\ saved = <<>>
    /\ db = <<>> /\ result = <<>> /\ response = <<>> /\ error = "" /\ status = 0

Init ==
    /\ \/ /\ entry = "analyze_document"
          /\ contentType \in ContentTypes
          /\ filename \in Filenames
          /\ content \in DocContents
          /\ wiring = RouteWiring
          /\ pc = "check"
       \/ /\ entry = "upload_file"
          /\ contentType \in ContentTypes
          /\ filename = "data.csv"
          /\ content \in UploadContents
          /\ wiring = RouteWiring
          /\ pc = "read"
       \/ /\ entry = "analyze"
          /\ contentType = ""
          /\ filename \in Filenames
          /\ content \in DocContents
          /\ wiring \in DirectWirings
          /\ pc = "construct"
    /\ RunInit
    /\ SanIdle /\ CacheIdle /\ ValIdle /\ ParseIdle

-----------------------------------------------------------------------------
(* Spec: the request ends.                                                 *)

\* an exception leaves the handler: a route answers 500
Raise(exc) ==
    /\ error' = exc
    /\ status' = IF entry = "analyze" THEN 0 ELSE 500
    /\ pc' = "done"

\* raise HTTPException(status_code=code)
Reject(code) ==
    /\ error' = "HTTPException"
    /\ status' = code
    /\ pc' = "done"

-----------------------------------------------------------------------------
(* analyze_document, up to the call of analyze *)

DocCheckType ==
    /\ pc = "check"
    /\ IF contentType \notin DocumentTypesAllowed
       THEN Reject(400)
       ELSE pc' = "construct" /\ UNCHANGED <<error, status>>
    /\ UNCHANGED <<sanVars, cacheVars, valVars, parseVars, reqVars, calls, pipeCalls, ocr, text_content, docType, payload, summary,
                   sentiment, uploadResult, s3key, objects, saved, db, result, response>>

-----------------------------------------------------------------------------
(* DocumentAnalyzerService.__init__ and InformationAnalyzer.__init__ *)

\* the factories InformationAnalyzer() calls when no pipeline is passed
DefaultPipelines == {"get_summary_pipeline", "get_sentiment_pipeline"}

\* a factory's body finds its model name in the settings
CanBuild(f) == ModelField(f) \in SettingsFields

\* the collaborators are in place
ConstructOk ==
    /\ pc = "construct"
    /\ wiring.info = "injected" \/ \A f \in DefaultPipelines : CanBuild(f)
    /\ pc' = "extract"
    /\ UNCHANGED <<sanVars, cacheVars, valVars, parseVars, reqVars, calls, pipeCalls, ocr, text_content, docType, payload, summary,
                   sentiment, uploadResult, s3key, objects, saved, db, result, response, error, status>>

\* InformationAnalyzer() loads both pipelines: a model fails to load
ConstructLoadFails ==
    /\ pc = "construct"
    /\ wiring.info = "default"
    /\ \E f \in DefaultPipelines : CanBuild(f)
    /\ Raise("OSError")
    /\ UNCHANGED <<sanVars, cacheVars, valVars, parseVars, reqVars, calls, pipeCalls, ocr, text_content, docType, payload, summary,
                   sentiment, uploadResult, s3key, objects, saved, db, result, response>>

\* InformationAnalyzer() loads both pipelines: a factory reads a settings
\* field that Settings does not declare
ConstructSettingsFail ==
    /\ pc = "construct"
    /\ wiring.info = "default"
    /\ \E f \in DefaultPipelines : ~CanBuild(f)
    /\ Raise("AttributeError")
    /\ UNCHANGED <<sanVars, cacheVars, valVars, parseVars, reqVars, calls, pipeCalls, ocr, text_content, docType, payload, summary,
                   sentiment, uploadResult, s3key, objects, saved, db, result, response>>

-----------------------------------------------------------------------------
(* DocumentTextExtractor.extract *)

\* _extract_pdf: PdfReader(BytesIO(content)), no exception handled
ExtractPdf ==
    /\ pc = "extract"
    /\ IsPdfName(filename)
    /\ calls' = Append(calls, "extract")
    /\ IF content.pdf = <<>>
       THEN Raise("PdfReadError") /\ UNCHANGED text_content
       ELSE /\ text_content' = Sanitize(content.pdf[1])
            /\ pc' = "classify"
            /\ UNCHANGED <<error, status>>
    /\ UNCHANGED <<sanVars, cacheVars, valVars, parseVars, reqVars, pipeCalls, ocr, docType, payload, summary, sentiment,
                   uploadResult, s3key, objects, saved, db, result, response>>

\* _extract_image: Textract answers
ExtractImage ==
    /\ pc = "extract"
    /\ ~IsPdfName(filename)
    /\ ~content.empty
    /\ calls' = Append(calls, "extract")
    /\ ocr' = "ok"
    /\ text_content' = Sanitize(content.lines)
    /\ pc' = "classify"
    /\ UNCHANGED <<sanVars, cacheVars, valVars, parseVars, reqVars, pipeCalls, docType, payload, summary, sentiment,
                   uploadResult, s3key, objects, saved, db, result, response, error, status>>

\* _extract_image: Textract raises ClientError or BotoCoreError
ExtractImageFallback ==
    /\ pc = "extract"
    /\ ~IsPdfName(filename)
    /\ calls' = Append(calls, "extract")
    /\ ocr' = "ClientError"
    /\ text_content' = Sanitize(content.decoded)
    /\ pc' = "classify"
    /\ UNCHANGED <<sanVars, cacheVars, valVars, parseVars, reqVars, pipeCalls, docType, payload, summary, sentiment,
                   uploadResult, s3key, objects, saved, db, result, response, error, status>>

-----------------------------------------------------------------------------
(* DocumentAnalyzerService.analyze, after the extraction *)

ClassifyStep ==
    /\ pc = "classify"
    /\ calls' = Append(calls, "classify")
    /\ docType' = Classify(text_content)
    /\ pc' = IF Classify(text_content) = "FACTURA" THEN "parse" ELSE "info_summary"
    /\ UNCHANGED <<sanVars, cacheVars, valVars, parseVars, reqVars, pipeCalls, ocr, text_content, payload, summary, sentiment,
                   uploadResult, s3key, objects, saved, db, result, response, error, status>>

\* analyze with the upload left out: the branch is followed by the save
AfterBranchSkipsUpload == "save"

\* what analyze does once the type-specific branch has built the payload:
\* the try block around storage_service.upload
AfterBranch == "upload"

NoneValue == [t |-> "none", v |-> <<>>]

StrValue(x) == [t |-> "str", v |-> <<x>>]

\* the invoice payload with the information field filled as well
InvoicePayloadBoth(dtype, parsed, raw) ==
    [document_type |-> dtype, factura |-> <<parsed>>, informacion |-> <<parsed>>,
     raw_text |-> raw]

\* DocumentAnalysisResult(document_type, factura=parsed, informacion=None, raw_text)
InvoicePayload(dtype, parsed, raw) ==
    [document_type |-> dtype, factura |-> <<parsed>>, informacion |-> <<>>, raw_text |-> raw]

\* DocumentAnalysisResult(document_type, factura=None, informacion=parsed, raw_text)
InformationPayload(dtype, parsed, raw) ==
    [document_type |-> dtype, factura |-> <<>>, informacion |-> <<parsed>>, raw_text |-> raw]

\* parsed.total and f"Factura con total estimado {parsed.total}"
InvoiceSummary(total) ==
    IF total = <<>> THEN NoneValue
    ELSE IF total[1][1] = 0 THEN [t |-> "float", v |-> total]
    ELSE StrValue(<<"Factura con total estimado", total[1]>>)

\* the FACTURA branch
ParseInvoice ==
    /\ pc = "parse"
    /\ calls' = Append(calls, "parse")
    /\ payload' = <<InvoicePayload(docType, Parse(text_content), text_content)>>
    /\ sentiment' = NoneValue
    /\ summary' = InvoiceSummary(Parse(text_content).total)
    /\ pc' = AfterBranch
    /\ UNCHANGED <<sanVars, cacheVars, valVars, parseVars, reqVars, pipeCalls, ocr, text_content, docType, uploadResult, s3key,
                   objects, saved, db, result, response, error, status>>

-----------------------------------------------------------------------------
(* InformationAnalyzer.analyze.  A pipeline call returns a value or raises: *)
(* out is what the pipeline does when it is called.                         *)

DescripcionLen == 400

SentimentLen == 512

SummaryOutcomes == {[raised |-> FALSE, value |-> "resumen generado"], [raised |-> TRUE, value |-> ""]}

\* what the sentiment pipeline does: it raises, or result[0]["label"] is a
\* label, <<l>>, or None, <<>>
SentimentOutcomes ==
    {[raised |-> FALSE, value |-> <<l>>] : l \in {"POSITIVE", "negative", "LABEL_0"}}
    \cup {[raised |-> FALSE, value |-> <<>>]}
    \cup {[raised |-> TRUE, value |-> <<>>]}

\* str.upper() on the labels
UpperLabel(l) == IF l = "negative" THEN "NEGATIVE" ELSE l

\* sentiment_map.get(sentiment_raw.upper(), "neutral")
SentimentMap(l) ==
    CASE UpperLabel(l) = "POSITIVE" -> "positivo"
      [] UpperLabel(l) = "NEGATIVE" -> "negativo"
      [] OTHER -> "neutral"

\* _build_summary without the test of the description
BuildSummaryAlways(descripcion, out) ==
    IF out.raised THEN [called |-> TRUE, raised |-> TRUE, value |-> ""]
    ELSE [called |-> TRUE, raised |-> FALSE, value |-> out.value]

\* _build_summary
BuildSummary(descripcion, out) ==
    IF Strip(descripcion) = <<>> THEN [called |-> FALSE, raised |-> FALSE, value |-> ""]
    ELSE IF out.raised THEN [called |-> TRUE, raised |-> TRUE, value |-> ""]
    ELSE [called |-> TRUE, raised |-> FALSE, value |-> out.value]

\* _detect_sentiment with the pipeline's exception replaced by "neutral"
DetectSentimentSwallows(descripcion, out) ==
    IF Strip(descripcion) = <<>>
    THEN [called |-> FALSE, raised |-> FALSE, exc |-> "", value |-> "neutral"]
    ELSE IF out.raised
    THEN [called |-> TRUE, raised |-> FALSE, exc |-> "", value |-> "neutral"]
    ELSE IF out.value = <<>>
    THEN [called |-> TRUE, raised |-> TRUE, exc |-> "AttributeError", value |-> ""]
    ELSE [called |-> TRUE, raised |-> FALSE, exc |-> "", value |-> SentimentMap(out.value[1])]

\* _detect_sentiment.  The pipeline's exception leaves it; None has no
\* upper(), so sentiment_raw.upper() raises AttributeError on a None label.
DetectSentiment(descripcion, out) ==
    IF Strip(descripcion) = <<>>
    THEN [called |-> FALSE, raised |-> FALSE, exc |-> "", value |-> "neutral"]
    ELSE IF out.raised
    THEN [called |-> TRUE, raised |-> TRUE, exc |-> "PipelineError", value |-> ""]
    ELSE IF out.value = <<>>
    THEN [called |-> TRUE, raised |-> TRUE, exc |-> "AttributeError", value |-> ""]
    ELSE [called |-> TRUE, raised |-> FALSE, exc |-> "", value |-> SentimentMap(out.value[1])]

\* the record of a pipeline call: its argument, whether the pipeline raised
\* and, when it did not, what it returned
PipeCall(pipe, arg, call, out) ==
    IF call.called
    THEN <<[pipe |-> pipe, arg |-> arg, raised |-> out.raised,
            returned |-> IF out.raised THEN <<>> ELSE <<out.value>>]>>
    ELSE <<>>

\* the INFORMACION branch: info_analyzer.analyze(text_content), then the payload
AnalyzeInformation ==
    /\ pc = "info_summary"
    /\ calls' = Append(calls, "analyze_information")
    /\ \E so \in SummaryOutcomes, se \in SentimentOutcomes :
          LET descripcion == Take(text_content, DescripcionLen)
              resumen == BuildSummary(descripcion, so)
              sentimiento == DetectSentiment(descripcion, se)
              parsed == [descripcion |-> descripcion, resumen |-> resumen.value,
                         sentimiento |-> sentimiento.value]
          IN  IF resumen.raised
              THEN /\ pipeCalls' = pipeCalls \o PipeCall("summary", descripcion, resumen, so)
                   /\ Raise("PipelineError")
                   /\ UNCHANGED <<payload, sentiment, summary>>
              ELSE /\ pipeCalls' = pipeCalls \o PipeCall("summary", descripcion, resumen, so)
                                   \o PipeCall("sentiment", Take(descripcion, SentimentLen),
                                               sentimiento, se)
                   /\ IF sentimiento.raised
                      THEN Raise(sentimiento.exc) /\ UNCHANGED <<payload, sentiment, summary>>
                      ELSE /\ payload' = <<InformationPayload(docType, parsed, text_content)>>
                           /\ sentiment' = StrValue(parsed.sentimiento)
                           /\ summary' = StrValue(parsed.resumen)
                           /\ pc' = AfterBranch
                           /\ UNCHANGED <<error, status>>
    /\ UNCHANGED <<sanVars, cacheVars, valVars, parseVars, reqVars, ocr, text_content, docType, uploadResult, s3key, objects,
                   saved, db, result, response>>

-----------------------------------------------------------------------------
(* The storage upload *)

\* the keyword arguments analyze passes to storage_service.upload
AnalyzeUploadArgs == {"content", "filename", "prefix"}

\* the keyword arguments upload_file passes to storage_service.upload
RouteUploadArgs == {"content", "filename"}

\* the keyword parameters upload declares: S3StorageService.upload(self, *,
\* content, filename), StorageServiceProtocol.upload(self, *, content,
\* filename, prefix="uploads")
UploadParams(storage) ==
    IF storage = "S3StorageService" THEN {"content", "filename"}
    ELSE {"content", "filename", "prefix"}

\* the key of the stored object
StorageKey(storage, name) ==
    [prefix |-> IF storage = "S3StorageService" THEN "uploads" ELSE "documents", name |-> name]

\* the handler of the try block: except RuntimeError
UploadCaught == {"RuntimeError"}

\* the call does not fit the signature: TypeError, which the try block lets through
UploadTypeError ==
    /\ pc = "upload"
    /\ ~(AnalyzeUploadArgs \subseteq UploadParams(wiring.storage))
    /\ calls' = Append(calls, "upload")
    /\ uploadResult' = "TypeError"
    /\ IF "TypeError" \in UploadCaught
       THEN pc' = "save" /\ UNCHANGED <<error, status>>
       ELSE Raise("TypeError")
    /\ UNCHANGED <<sanVars, cacheVars, valVars, parseVars, reqVars, pipeCalls, ocr, text_content, docType, payload, summary,
                   sentiment, s3key, objects, saved, db, result, response>>

\* the object is stored
UploadStored ==
    /\ pc = "upload"
    /\ AnalyzeUploadArgs \subseteq UploadParams(wiring.storage)
    /\ calls' = Append(calls, "upload")
    /\ uploadResult' = "ok"
    /\ objects' = Append(objects, StorageKey(wiring.storage, filename))
    /\ s3key' = <<StorageKey(wiring.storage, filename)>>
    /\ pc' = "save"
    /\ UNCHANGED <<sanVars, cacheVars, valVars, parseVars, reqVars, pipeCalls, ocr, text_content, docType, payload, summary,
                   sentiment, saved, db, result, response, error, status>>

\* the storage service raises RuntimeError: s3_key = None
UploadFails ==
    /\ pc = "upload"
    /\ AnalyzeUploadArgs \subseteq UploadParams(wiring.storage)
    /\ calls' = Append(calls, "upload")
    /\ uploadResult' = "RuntimeError"
    /\ s3key' = <<>>
    /\ IF "RuntimeError" \in UploadCaught
       THEN pc' = "save" /\ UNCHANGED <<error, status>>
       ELSE Raise("RuntimeError")
    /\ UNCHANGED <<sanVars, cacheVars, valVars, parseVars, reqVars, pipeCalls, ocr, text_content, docType, payload, summary,
                   sentiment, objects, saved, db, result, response>>

-----------------------------------------------------------------------------
(* repository.save_analysis and the return *)

\* the payload handed to save_analysis
SavedPayload(info) == info

\* the payload of the AnalyzerResult
ReturnedPayload(info) == info

SaveStep ==
    /\ pc = "save"
    /\ calls' = Append(calls, "save")
    /\ IF wiring.repository = "DocumentRepository"
       THEN LET record == [filename |-> filename, document_type |-> docType, s3_key |-> s3key,
                           payload |-> SavedPayload(payload[1]), ai_summary |-> summary,
                           sentiment |-> sentiment]
            IN  /\ saved' = Append(saved, record)
                /\ db' = Append(db, [table |-> "document_analysis", row |-> record])
                /\ pc' = "return"
                /\ UNCHANGED <<error, status>>
       ELSE \* a Session has no save_analysis
            Raise("AttributeError") /\ UNCHANGED <<saved, db>>
    /\ UNCHANGED <<sanVars, cacheVars, valVars, parseVars, reqVars, pipeCalls, ocr, text_content, docType, payload, summary,
                   sentiment, uploadResult, s3key, objects, result, response>>

\* return AnalyzerResult(record, payload); analyze_document then logs two
\* events and answers
ReturnStep ==
    /\ pc = "return"
    /\ result' = <<[record |-> saved[Len(saved)], payload |-> ReturnedPayload(payload[1])]>>
    /\ IF entry = "analyze_document"
       THEN /\ db' = db \o <<[table |-> "event_log", row |-> "Carga de documento"],
                             [table |-> "event_log", row |-> "IA"]>>
            /\ status' = 200
       ELSE UNCHANGED <<db, status>>
    /\ pc' = "done"
    /\ UNCHANGED <<sanVars, cacheVars, valVars, parseVars, reqVars, calls, pipeCalls, ocr, text_content, docType, payload, summary,
                   sentiment, uploadResult, s3key, objects, saved, response, error>>

-----------------------------------------------------------------------------
(* upload_file *)

\* raw_content = await file.read(); if not raw_content: 400
FilesRead ==
    /\ pc = "read"
    /\ IF content.empty THEN Reject(400) ELSE pc' = "store_object" /\ UNCHANGED <<error, status>>
    /\ UNCHANGED <<sanVars, cacheVars, valVars, parseVars, reqVars, calls, pipeCalls, ocr, text_content, docType, payload, summary,
                   sentiment, uploadResult, s3key, objects, saved, db, result, response>>

\* storage_service.upload(content=raw_content, filename=file.filename) stores the object
FilesUploadStored ==
    /\ pc = "store_object"
    /\ RouteUploadArgs \subseteq UploadParams(wiring.storage)
    /\ calls' = Append(calls, "upload")
    /\ uploadResult' = "ok"
    /\ objects' = Append(objects, StorageKey(wiring.storage, filename))
    /\ s3key' = <<StorageKey(wiring.storage, filename)>>
    /\ pc' = "validate"
    /\ UNCHANGED <<sanVars, cacheVars, valVars, parseVars, reqVars, pipeCalls, ocr, text_content, docType, payload, summary,
                   sentiment, saved, db, result, response, error, status>>

\* the upload raises RuntimeError: 502
FilesUploadFails ==
    /\ pc = "store_object"
    /\ RouteUploadArgs \subseteq UploadParams(wiring.storage)
    /\ calls' = Append(calls, "upload")
    /\ uploadResult' = "RuntimeError"
    /\ Reject(502)
    /\ UNCHANGED <<sanVars, cacheVars, valVars, parseVars, reqVars, pipeCalls, ocr, text_content, docType, payload, summary,
                   sentiment, s3key, objects, saved, db, result, response>>

\* the test of the findings left out: no finding rejects the request
HasErrorNever(findings) == FALSE

\* any(item["status"] == "ERROR" for item in validations)
HasError(findings) == \E i \in 1..Len(findings) : findings[i].status = "ERROR"

\* decode, parse_csv, run_all, and the 400 on an ERROR finding
FilesValidate ==
    /\ pc = "validate"
    /\ calls' = Append(calls, "validate")
    /\ IF ~content.utf8 THEN Raise("UnicodeDecodeError")
       ELSE LET validations == RunAll(ParseCsv(content.csv))
            IN  IF validations.raised # "no" THEN Raise(validations.raised)
                ELSE IF HasError(validations.findings) THEN Reject(400)
                ELSE pc' = "store_rows" /\ UNCHANGED <<error, status>>
    /\ UNCHANGED <<sanVars, cacheVars, valVars, parseVars, reqVars, pipeCalls, ocr, text_content, docType, payload, summary,
                   sentiment, uploadResult, s3key, objects, saved, db, result, response>>

\* the text summarize_validations returns when the generation raises
AiPlaceholder == "IA local no disponible en este momento"

\* what _build_pipeline(self.model_name)(prompt, ...) does: it returns the
\* generated text, or the load or the generation raises
GenerationOutcomes == {[raised |-> FALSE, value |-> "resumen generado"], [raised |-> TRUE, value |-> ""]}

\* summarize_validations with no try around the generation
SummarizeValidationsRaises(gen) == [raised |-> gen.raised, value |-> gen.value]

\* summarize_validations: except Exception returns the placeholder
SummarizeValidations(gen) ==
    IF gen.raised THEN [raised |-> FALSE, value |-> AiPlaceholder]
    ELSE [raised |-> FALSE, value |-> gen.value]

\* db.add(uploaded_file), db.add(UploadedRow) per row, summarize_validations,
\* db.commit(), and the FileUploadResponse
FilesStore ==
    /\ pc = "store_rows"
    /\ \E gen \in GenerationOutcomes :
          LET rows == ParseCsv(content.csv)
              ai == SummarizeValidations(gen)
          IN  /\ pipeCalls' = Append(pipeCalls,
                                     [pipe |-> "text2text-generation", arg |-> <<"prompt">>,
                                      raised |-> gen.raised,
                                      returned |-> IF gen.raised THEN <<>> ELSE <<gen.value>>])
              /\ IF ai.raised
                 THEN /\ calls' = Append(calls, "summarize_validations")
                      /\ Raise("PipelineError")
                      /\ UNCHANGED <<db, response>>
                 ELSE /\ calls' = calls \o <<"summarize_validations", "commit">>
                      /\ db' = <<[table |-> "uploaded_files",
                                  row |-> [s3_key |-> s3key, ai_summary |-> ai.value]]>>
                               \o [i \in 1..Len(rows) |->
                                     [table |-> "uploaded_rows",
                                      row |-> [row_index |-> i, data |-> rows[i]]]]
                      /\ response' = <<[s3_key |-> s3key, stored_rows |-> Len(rows),
                                        ai_summary |-> ai.value]>>
                      /\ status' = 200
                      /\ pc' = "done"
                      /\ UNCHANGED error
    /\ UNCHANGED <<sanVars, cacheVars, valVars, parseVars, reqVars, ocr, text_content, docType, payload, summary,
                   sentiment, uploadResult, s3key, objects, saved, result>>

-----------------------------------------------------------------------------

Next ==
    \/ DocCheckType
    \/ ConstructOk
    \/ ConstructLoadFails
    \/ ConstructSettingsFail
    \/ ExtractPdf
    \/ ExtractImage
    \/ ExtractImageFallback
    \/ ClassifyStep
    \/ ParseInvoice
    \/ AnalyzeInformation
    \/ UploadTypeError
    \/ UploadStored
    \/ UploadFails
    \/ SaveStep
    \/ ReturnStep
    \/ FilesRead
    \/ FilesUploadStored
    \/ FilesUploadFails
    \/ FilesValidate
    \/ FilesStore

Spec == Init /\ [][Next]_vars

-----------------------------------------------------------------------------
(* The claims checked under Spec *)

\* C1: when the storage upload fails during analyze, whatever the failure
\* and whichever storage service is used (the default S3StorageService
\* included), the analysis still succeeds: save_analysis is called with
\* s3_key = None and the record and payload are returned.
C1_UploadFailureAbsorbed ==
    (entry = "analyze" /\ pc = "done" /\ uploadResult \notin {"none", "ok"}) =>
        /\ error = ""
        /\ result # <<>>
        /\ Len(saved) = 1
        /\ saved[1].s3_key = <<>>

\* the document is a PDF that PdfReader parses and the classifier calls an invoice
InvoiceDocument ==
    /\ IsPdfName(filename)
    /\ content.pdf # <<>>
    /\ Classify(Sanitize(content.pdf[1])) = "FACTURA"

\* C2: for a document classified FACTURA, the service built with its default
\* collaborators reaches save_analysis with the invoice payload; no failure of
\* the summary or sentiment pipeline stops it.
C2_InvoiceNotBlockedByInsight ==
    (entry = "analyze" /\ pc = "done" /\ wiring.info = "default" /\ InvoiceDocument) =>
        /\ Len(saved) = 1
        /\ saved[1].payload.factura # <<>>

\* C3: an analyze that returns has called extract, classify, exactly one of
\* parse and the information analysis, upload and save, in this order and once
\* each; save never comes before the upload attempt has ended; the payload
\* returned is the payload handed to save.
C3_CallOrder ==
    /\ entry = "analyze" =>
          \A i \in 1..Len(calls) :
              calls[i] = "save" => uploadResult # "none" /\ \E j \in 1..(i - 1) : calls[j] = "upload"
    /\ result # <<>> =>
          /\ calls \in {<<"extract", "classify", "parse", "upload", "save">>,
                        <<"extract", "classify", "analyze_information", "upload", "save">>}
          /\ calls[3] = "parse" <=> docType = "FACTURA"
          /\ Len(saved) = 1
          /\ result[1].payload = saved[1].payload

C3_Returned ==
    /\ result # <<>>
    /\ calls = <<"extract", "classify", "analyze_information", "upload", "save">>
    /\ uploadResult = "RuntimeError"

\* C4: a payload built by analyze is tagged by its document type: FACTURA
\* with the invoice data and no information data, or INFORMACION with the
\* information data and no invoice data; it carries the full extracted text.
C4_TaggedUnion ==
    payload # <<>> =>
        LET p == payload[1]
        IN  /\ p.document_type = docType
            /\ p.document_type \in {"FACTURA", "INFORMACION"}
            /\ p.document_type = "FACTURA" => p.factura # <<>> /\ p.informacion = <<>>
            /\ p.document_type = "INFORMACION" => p.informacion # <<>> /\ p.factura = <<>>
            /\ p.raw_text = text_content

C4_InvoiceBuilt ==
    /\ payload # <<>>
    /\ payload[1].document_type = "FACTURA"
    /\ payload[1].factura # <<>>
    /\ payload[1].raw_text # <<>>

\* C6: when the summary or the sentiment pipeline raises for an INFORMACION
\* document, analyze ends with that error: no summary or sentiment is put in
\* its place, and nothing has been uploaded or saved.
C6_PipelineFailurePropagates ==
    (\E i \in 1..Len(pipeCalls) :
        pipeCalls[i].pipe \in {"summary", "sentiment"} /\ pipeCalls[i].raised) =>
        /\ docType = "INFORMACION"
        /\ pc = "done"
        /\ error = "PipelineError"
        /\ result = <<>>
        /\ payload = <<>> /\ summary = <<>> /\ sentiment = <<>>
        /\ uploadResult = "none"
        /\ ~(\E i \in 1..Len(calls) : calls[i] \in {"upload", "save"})
        /\ objects = <<>> /\ saved = <<>> /\ db = <<>>

C6_SentimentRaised ==
    /\ Len(pipeCalls) = 2
    /\ pipeCalls[2].pipe = "sentiment"
    /\ pipeCalls[2].raised
    /\ ~pipeCalls[1].raised
    /\ pipeCalls[1].arg # <<>>

\* C7: when Textract is unavailable (image) or the PDF cannot be parsed,
\* extract falls back to decoding the raw bytes and returns that text
\* sanitized; the extraction does not fail.
C7_ExtractionDegrades ==
    (/\ Len(calls) >= 1
     /\ calls[1] = "extract"
     /\ \/ IsPdfName(filename) /\ content.pdf = <<>>
        \/ ocr = "ClientError") =>
        /\ error # "PdfReadError"
        /\ text_content = Sanitize(content.decoded)

\* the content types each route is meant for
SupportedTypes == [analyze_document |-> DocumentTypesAllowed, upload_file |-> {"text/csv"}]

\* C8: a request with an unsupported content type or with empty content is
\* answered with a client error (400) in both routes, and no extraction,
\* upload or persistence call is made for it.
C8_MalformedRejectedFirst ==
    (/\ entry \in {"analyze_document", "upload_file"}
     /\ content.empty \/ contentType \notin SupportedTypes[entry]) =>
        /\ calls = <<>>
        /\ objects = <<>> /\ saved = <<>> /\ db = <<>>
        /\ pc = "done" => status = 400

-----------------------------------------------------------------------------
(* Spec: what analyze hands to save_analysis, and analyze_information      *)

\* C17: for a FACTURA document analyze passes to save_analysis a sentiment
\* that is absent and a summary that is the one-line text with the extracted
\* total whenever the total is present, 0 included, and absent exactly when
\* the total is absent; the summary is never a value of another type.
C17_InvoiceSummarySaved ==
    \A i \in 1..Len(saved) :
        saved[i].document_type = "FACTURA" =>
            LET total == saved[i].payload.factura[1].total
            IN  /\ saved[i].sentiment = NoneValue
                /\ saved[i].ai_summary =
                       IF total = <<>> THEN NoneValue
                       ELSE StrValue(<<"Factura con total estimado", total[1]>>)

\* the number of calls made to a pipeline
C18_Invocations(pipe) == Cardinality({i \in 1..Len(pipeCalls) : pipeCalls[i].pipe = pipe})

\* analyze_information has run on an empty description and has returned the
\* empty summary and neutral without a pipeline call
C18_EmptyDescription ==
    /\ pipeCalls = <<>>
    /\ payload # <<>>
    /\ payload[1].informacion # <<>>
    /\ payload[1].informacion[1].resumen = ""
    /\ payload[1].informacion[1].sentimiento = "neutral"

C19_Expected(label) ==
    IF label = <<>> THEN "neutral"
    ELSE IF label[1] \in {"POSITIVE", "positive"} THEN "positivo"
    ELSE IF label[1] \in {"NEGATIVE", "negative"} THEN "negativo"
    ELSE "neutral"

\* C19: the sentiment analyze_information returns is always one of positivo,
\* negativo, neutral: whatever the sentiment pipeline returns,
\* analyze_information returns, without raising, the sentiment its label
\* stands for case-insensitively, POSITIVE positivo, NEGATIVE negativo, and
\* every other outcome, an absent label included, neutral.
C19_LabelMapped ==
    /\ \A i \in 1..Len(pipeCalls) :
          (pipeCalls[i].pipe = "sentiment" /\ ~pipeCalls[i].raised) =>
              /\ payload # <<>>
              /\ payload[1].informacion # <<>>
              /\ payload[1].informacion[1].sentimiento = C19_Expected(pipeCalls[i].returned[1])
    /\ (payload # <<>> /\ payload[1].informacion # <<>>) =>
          payload[1].informacion[1].sentimiento \in {"positivo", "negativo", "neutral"}

-----------------------------------------------------------------------------
(* Spec: upload_file *)

\* C23: in upload_file a failure of the AI summary never blocks the upload:
\* whenever the generation inside summarize_validations raises, the
\* placeholder is returned instead, and the uploaded file and all of its
\* rows are committed, with stored_rows the number of parsed rows and the
\* row indexes 1..n in input order.
C23_SummaryFailureAbsorbed ==
    (\E i \in 1..Len(pipeCalls) :
        pipeCalls[i].pipe = "text2text-generation" /\ pipeCalls[i].raised) =>
        LET rows == ParseCsv(content.csv)
        IN  /\ pc = "done" /\ error = "" /\ status = 200
            /\ response # <<>>
            /\ response[1].ai_summary = AiPlaceholder
            /\ response[1].stored_rows = Len(rows)
            /\ Len(db) = 1 + Len(rows)
            /\ db[1].table = "uploaded_files"
            /\ db[1].row.ai_summary = AiPlaceholder
            /\ \A k \in 1..Len(rows) :
                  db[k + 1] = [table |-> "uploaded_rows",
                               row |-> [row_index |-> k, data |-> rows[k]]]

\* the generation raised for a file of two rows
C23_SummaryRaised ==
    /\ Len(pipeCalls) = 1
    /\ pipeCalls[1].pipe = "text2text-generation"
    /\ pipeCalls[1].raised
    /\ response # <<>>
    /\ response[1].stored_rows = 2
    /\ Len(db) = 3

\* C24: in upload_file the object is uploaded to storage before the CSV is
\* parsed and validated: a request rejected because validation produced an
\* ERROR finding, as for a header-only file with no data row, leaves no
\* UploadedFile or UploadedRow added or committed, but its object has been
\* written to storage; and a storage failure rejects the request before any
\* parsing, validation or database write.
C24_StoredBeforeValidated ==
    entry = "upload_file" =>
        LET validated == \E i \in 1..Len(calls) : calls[i] = "validate"
        IN  /\ validated =>
                  /\ calls[1] = "upload" /\ calls[2] = "validate"
                  /\ uploadResult = "ok"
                  /\ Len(objects) = 1
            /\ (validated /\ content.utf8 /\ ParseCsv(content.csv) = <<>>) =>
                  /\ pc = "done" /\ status = 400 /\ error = "HTTPException"
                  /\ db = <<>> /\ response = <<>>
                  /\ Len(objects) = 1
            /\ (validated /\ status = 400) => db = <<>> /\ response = <<>>
            /\ uploadResult = "RuntimeError" =>
                  /\ pc = "done" /\ status = 502 /\ error = "HTTPException"
                  /\ calls = <<"upload">>
                  /\ objects = <<>> /\ db = <<>> /\ response = <<>>

\* a header-only file has been rejected after its object was stored
C24_HeaderOnlyRejected ==
    /\ entry = "upload_file"
    /\ content.csv.header # <<>> /\ content.csv.lines = <<>>
    /\ calls = <<"upload", "validate">>
    /\ status = 400
    /\ Len(objects) = 1
    /\ db = <<>>

=============================================================================
